---- MODULE Spec2Model ----
(***************************************************************************)
(* HADLoC: the assembler pipeline (parser -> label resolver -> encoder)    *)
(* and the instruction-set emulator, as one state machine.                 *)
(*                                                                         *)
(* A job is either an assembly source (a list of token lines, as the       *)
(* tokenizer hands them to the parser) or a raw byte image given straight  *)
(* to the emulator.  assemble() runs Parse, EncodeLabels and WriteCode in  *)
(* that order; the emulator then loads the bytes (Boot) and is stepped     *)
(* (Execute), with input() calls between steps (Input).                    *)
(*                                                                         *)
(* Values wrapped in CodeObject / PositionObject are modelled by their     *)
(* value attribute; source positions are not modelled.                     *)
(***************************************************************************)
EXTENDS Integers, Sequences, FiniteSets, TLC

VARIABLES job, phase, err, instructions, labels, constants, warnings,
          machinecode, files,
          PC, L, H, X, Y, IN_, CF, IF_, RAM, ROM, display, inputs,
          class, text, remaining_text, offset, call, ret,
          sources, tokenized

vars == <<job, phase, err, instructions, labels, constants, warnings,
          machinecode, files,
          PC, L, H, X, Y, IN_, CF, IF_, RAM, ROM, display, inputs,
          class, text, remaining_text, offset, call, ret,
          sources, tokenized>>

\* The text utilities: the object under use (its class, and the attributes
\* text, remaining_text and offset), the last call made on it and what that
\* call returned.  The tokenizer: the source texts handed to it and what
\* it made of those it has run on.
lexVars == <<sources, tokenized>>

textVars == <<class, text, remaining_text, offset, call, ret, sources, tokenized>>

asmVars == <<instructions, labels, constants, warnings, machinecode, files>>
emuVars == <<PC, L, H, X, Y, IN_, CF, IF_, RAM, ROM, display, inputs>>

(***************************************************************************)
(* Integer helpers: Python's &, |, ~, >> on unbounded two's complement     *)
(* integers.                                                               *)
(***************************************************************************)
RECURSIVE Pow2(_)
Pow2(k) == IF k = 0 THEN 1 ELSE 2 * Pow2(k - 1)

RECURSIVE BitAnd(_, _)
BitAnd(a, b) ==
    IF a = 0 \/ b = 0 THEN 0
    ELSE IF a = -1 THEN b
    ELSE IF b = -1 THEN a
    ELSE 2 * BitAnd(a \div 2, b \div 2) + ((a % 2) * (b % 2))

RECURSIVE BitOr(_, _)
BitOr(a, b) ==
    IF a = 0 THEN b
    ELSE IF b = 0 THEN a
    ELSE IF a = -1 \/ b = -1 THEN -1
    ELSE 2 * BitOr(a \div 2, b \div 2) + (IF (a % 2) + (b % 2) > 0 THEN 1 ELSE 0)

BitNot(a) == -a - 1

ShiftRight(a, k) == a \div Pow2(k)

ShiftLeft(a, k) == a * Pow2(k)

Bit(a, k) == (a \div Pow2(k)) % 2

(***************************************************************************)
(* Sequence helpers: list.insert, list.append, del list[i] (0-based).      *)
(***************************************************************************)
ListInsert(s, i, x) == SubSeq(s, 1, i) \o <<x>> \o SubSeq(s, i + 1, Len(s))

ListDelete(s, i) == SubSeq(s, 1, i) \o SubSeq(s, i + 2, Len(s))

Range(s) == {s[i] : i \in 1..Len(s)}

(***************************************************************************)
(* Instructions as the parser builds them: ['nop'], ['mov', 'L', 'H'],     *)
(* ['ldb', 5] (kind "imm") and ['ldb', name] (kind "ref").  The field line  *)
(* records the source line the instruction's tokens come from (the tokens  *)
(* keep their position in the source); 0 for the two leading nops.         *)
(***************************************************************************)
Instr(op, args) ==
    [op |-> op, args |-> args, kind |-> "plain", imm |-> 0, ref |-> "", line |-> 0]

LoadImm(op, v) ==
    [op |-> op, args |-> <<>>, kind |-> "imm", imm |-> v, ref |-> "", line |-> 0]

LoadRef(op, name) ==
    [op |-> op, args |-> <<>>, kind |-> "ref", imm |-> 0, ref |-> name, line |-> 0]

\* Set the line of the instructions at positions from+1 .. to (1-based).
Stamp(instrs, from, to, ln) ==
    [i \in 1..Len(instrs) |->
        IF i > from /\ i <= to THEN [instrs[i] EXCEPT !.line = ln] ELSE instrs[i]]

(***************************************************************************)
(* codewriter.py: lookup tables and the encoder.                           *)
(***************************************************************************)
registers == [r \in {"X", "L", "I", "H", "M", "Y"} |->
                 CASE r = "X" -> 0 [] r = "L" -> 1 [] r = "I" -> 2
                   [] r = "H" -> 2 [] r = "M" -> 3 [] r = "Y" -> 3]

gt == 9
lt == 12
eq == 10
jmp == 16

fixed == [c \in {"jmp", "jlt", "jeq", "jgt", "jle", "jge", "jne", "nop", "jcs",
                 "jis", "hlt", "ics", "icc"} |->
             CASE c = "jmp" -> BitOr(BitOr(BitOr(jmp, lt), eq), gt)
               [] c = "jlt" -> BitOr(jmp, lt)
               [] c = "jeq" -> BitOr(jmp, eq)
               [] c = "jgt" -> BitOr(jmp, gt)
               [] c = "jle" -> BitOr(BitOr(jmp, lt), eq)
               [] c = "jge" -> BitOr(BitOr(jmp, eq), gt)
               [] c = "jne" -> BitOr(BitOr(jmp, lt), gt)
               [] c = "nop" -> 1
               [] c = "jcs" -> BitOr(jmp, 2)
               [] c = "jis" -> BitOr(jmp, 4)
               [] c = "hlt" -> 0
               [] c = "ics" -> 3
               [] c = "icc" -> 2]

unaryX == [o \in {"not", "neg", "inc", "dec"} |->
              CASE o = "not" -> 0 [] o = "neg" -> 8 [] o = "inc" -> 12 [] o = "dec" -> 4]

unaryLM == [o \in {"not", "neg", "inc", "dec"} |->
               CASE o = "not" -> 3 [] o = "neg" -> 15 [] o = "inc" -> 11 [] o = "dec" -> 7]

binary == [o \in {"and", "or", "add"} |->
              CASE o = "and" -> 10 [] o = "or" -> 14 [] o = "add" -> 9]

arith == {"add", "sub", "or", "and", "not", "neg", "inc", "dec"}

\* Result of the encoder: the byte, or the kind of CompilerException raised.
Byte(b) == [err |-> "", byte |-> b]

Raise(kind) == [err |-> kind, byte |-> 0]

arithmetic_value_AnyDst(instruction) ==
    LET op   == instruction.op
        dst  == instruction.args[1]
        arg1 == instruction.args[2]
        x    == IF dst = "X" THEN 1 ELSE 0
        m1   == IF arg1 = "M" THEN 1 ELSE 0
    IN  IF arg1 \in {"I", "Y", "H"} THEN Raise("Argument")
        ELSE IF op \in DOMAIN unaryX
             THEN LET opcode == IF arg1 = "X" THEN unaryX[op] ELSE unaryLM[op]
                  IN  Byte(BitOr(BitOr(BitOr(64, ShiftLeft(x, 5)), ShiftLeft(m1, 4)), opcode))
        ELSE LET arg2 == instruction.args[3]
                 m    == IF arg2 = "M" THEN 1 ELSE m1
             IN  IF arg2 \in {"I", "Y", "H"} THEN Raise("Argument")
                 ELSE IF arg1 = "X" /\ arg2 = "X" THEN Raise("Argument")
                 ELSE IF arg1 # "X" /\ arg2 # "X" THEN Raise("Argument")
                 ELSE LET opcode == IF op = "sub"
                                    THEN (IF arg1 = "X" THEN 13 ELSE 5)
                                    ELSE binary[op]
                      IN  Byte(BitOr(BitOr(BitOr(64, ShiftLeft(x, 5)), ShiftLeft(m, 4)), opcode))

arithmetic_value_TableX(instruction) ==
    LET op   == instruction.op
        dst  == instruction.args[1]
        arg1 == instruction.args[2]
        x    == IF dst = "X" THEN 1 ELSE 0
        m1   == IF arg1 = "M" THEN 1 ELSE 0
    IN  IF dst \notin {"X", "L"} THEN Raise("Argument")
        ELSE IF arg1 \in {"I", "Y", "H"} THEN Raise("Argument")
        ELSE IF op \in DOMAIN unaryX
             THEN Byte(BitOr(BitOr(BitOr(64, ShiftLeft(x, 5)), ShiftLeft(m1, 4)), unaryX[op]))
        ELSE LET arg2 == instruction.args[3]
                 m    == IF arg2 = "M" THEN 1 ELSE m1
             IN  IF arg2 \in {"I", "Y", "H"} THEN Raise("Argument")
                 ELSE IF arg1 = "X" /\ arg2 = "X" THEN Raise("Argument")
                 ELSE IF arg1 # "X" /\ arg2 # "X" THEN Raise("Argument")
                 ELSE LET opcode == IF op = "sub"
                                    THEN (IF arg1 = "X" THEN 13 ELSE 5)
                                    ELSE binary[op]
                      IN  Byte(BitOr(BitOr(BitOr(64, ShiftLeft(x, 5)), ShiftLeft(m, 4)), opcode))

\* arithmetic_value, for an instruction whose command is in arith.
arithmetic_value(instruction) ==
    LET op   == instruction.op
        dst  == instruction.args[1]
        arg1 == instruction.args[2]
        x    == IF dst = "X" THEN 1 ELSE 0
        m1   == IF arg1 = "M" THEN 1 ELSE 0
    IN  IF dst \notin {"X", "L"} THEN Raise("Argument")
        ELSE IF arg1 \in {"I", "Y", "H"} THEN Raise("Argument")
        ELSE IF op \in DOMAIN unaryX
             THEN LET opcode == IF arg1 = "X" THEN unaryX[op] ELSE unaryLM[op]
                  IN  Byte(BitOr(BitOr(BitOr(64, ShiftLeft(x, 5)), ShiftLeft(m1, 4)), opcode))
        ELSE LET arg2 == instruction.args[3]
                 m    == IF arg2 = "M" THEN 1 ELSE m1
             IN  IF arg2 \in {"I", "Y", "H"} THEN Raise("Argument")
                 ELSE IF arg1 = "X" /\ arg2 = "X" THEN Raise("Argument")
                 ELSE IF arg1 # "X" /\ arg2 # "X" THEN Raise("Argument")
                 ELSE LET opcode == IF op = "sub"
                                    THEN (IF arg1 = "X" THEN 13 ELSE 5)
                                    ELSE binary[op]
                      IN  Byte(BitOr(BitOr(BitOr(64, ShiftLeft(x, 5)), ShiftLeft(m, 4)), opcode))

mov_value_NoSameCheck(src, dst) ==
    IF dst = "I" THEN Raise("Argument")
    ELSE IF src = "H" THEN Raise("Argument")
    ELSE LET s == IF dst = "M" \/ src = "Y" THEN 1 ELSE 0
         IN  Byte(BitOr(BitOr(BitOr(32, ShiftLeft(s, 4)), ShiftLeft(registers[dst], 2)),
                        registers[src]))

\* The mov branch of instruction_value.
mov_value(src, dst) ==
    IF dst = "I" THEN Raise("Argument")
    ELSE IF src = "H" THEN Raise("Argument")
    ELSE IF dst = "M" /\ src = "M" THEN Byte(fixed["nop"])
    ELSE IF src = "Y" /\ dst = "Y" THEN Byte(fixed["nop"])
    ELSE LET s == IF dst = "M" \/ src = "Y" THEN 1 ELSE 0
         IN  Byte(BitOr(BitOr(BitOr(32, ShiftLeft(s, 4)), ShiftLeft(registers[dst], 2)),
                        registers[src]))

\* The opd/opi branch: the test is `instruction[1] in ['Y' or 'H']`, and
\* 'Y' or 'H' evaluates to 'Y'.
op_value(command, r) ==
    IF r \in {"Y"} THEN Raise("Argument")
    ELSE LET d == IF command = "opd" THEN 1 ELSE 0
         IN  Byte(BitOr(BitOr(8, ShiftLeft(d, 2)), registers[r]))

\* The ldb branch: 0x80 | instruction[1].
ldb_value(instruction) == Byte(BitOr(128, instruction.imm))

instruction_value(instruction) ==
    LET command == instruction.op
    IN  IF command \in DOMAIN fixed THEN Byte(fixed[command])
        ELSE IF command = "ldb" THEN
             (IF instruction.kind = "imm" THEN ldb_value(instruction) ELSE Raise("TypeError"))
        ELSE IF command = "mov" THEN mov_value(instruction.args[1], instruction.args[2])
        ELSE IF command \in {"opd", "opi"} THEN op_value(command, instruction.args[1])
        ELSE IF command \in arith THEN arithmetic_value(instruction)
        ELSE Raise("Encoding")

(***************************************************************************)
(* Tokens, as the parser reads them: a type and a value.  The value of an  *)
(* integer token is n; of every other token it is the lexeme s.            *)
(***************************************************************************)
Kw(s) == [type |-> "keyword", s |-> s, n |-> 0]

Id(s) == [type |-> "identifier", s |-> s, n |-> 0]

Reg(s) == [type |-> "register", s |-> s, n |-> 0]

Int_(n) == [type |-> "integer", s |-> "", n |-> n]

\* tokenize_label: the colon is a token of type 'label'.
Sym(s) == [type |-> IF s = ":" THEN "label" ELSE "symbol", s |-> s, n |-> 0]

\* Parser.type / Parser.value at self.index + offset: '' / None past the
\* end of the line.
NoToken == [type |-> "", s |-> "", n |-> 0]

TokAt(toks, i) == IF i >= Len(toks) THEN NoToken ELSE toks[i + 1]

\* Values of constant expressions: an integer, or (for `define K name`
\* with an undefined name) the identifier itself.
IntVal(n) == [isint |-> TRUE, n |-> n, s |-> ""]

StrVal(s) == [isint |-> FALSE, n |-> 0, s |-> s]

\* Result of an expression parser: the exception kind raised (or ""), the
\* value, the index after the expression, the constants it used.
ExprOk(val, index, used) == [err |-> "", val |-> val, index |-> index, used |-> used]

ExprErr(kind, index) == [err |-> kind, val |-> IntVal(0), index |-> index, used |-> <<>>]

\* A Python operator applied to two values; a non-integer operand raises
\* TypeError.
ApplyBinary(op, a, b) ==
    CASE op = "|" -> BitOr(a, b)
      [] op = "&" -> BitAnd(a, b)
      [] op = "+" -> a + b
      [] op = "-" -> a - b

Combine(op, left, right) ==
    IF right.err # "" THEN right
    ELSE IF ~left.val.isint \/ ~right.val.isint THEN ExprErr("TypeError", right.index)
    ELSE ExprOk(IntVal(ApplyBinary(op, left.val.n, right.val.n)), right.index,
                left.used \o right.used)

RECURSIVE parse_or_expression(_, _, _)
RECURSIVE or_loop(_, _, _)
RECURSIVE parse_and_expression(_, _, _)
RECURSIVE and_loop(_, _, _)
RECURSIVE parse_arithmetic_expression(_, _, _)
RECURSIVE arithmetic_loop(_, _, _)
RECURSIVE parse_unary_expression(_, _, _)
RECURSIVE unary_prefix(_, _, _, _)
RECURSIVE parse_primary(_, _, _)

\* parse_primary after the bracketed expression e: the closing bracket.
closing_bracket(toks, e) ==
    IF e.err # "" THEN e
    ELSE IF TokAt(toks, e.index).s = ")" THEN [e EXCEPT !.index = @ + 1]
    ELSE ExprErr("Syntax", e.index)

parse_primary(toks, index, consts) ==
    LET tok == TokAt(toks, index)
    IN  IF tok.type = "identifier" THEN
            (IF tok.s \in DOMAIN consts
             THEN ExprOk(consts[tok.s], index + 1, <<tok.s>>)
             ELSE ExprErr("Name", index))
        ELSE IF tok.type = "integer" THEN
            (IF ~(-32768 <= tok.n /\ tok.n < 65536)
             THEN ExprErr("Value", index)
             ELSE ExprOk(IntVal(tok.n), index + 1, <<>>))
        ELSE IF tok.s = "(" THEN
            closing_bracket(toks, parse_or_expression(toks, index + 1, consts))
        ELSE ExprErr("Syntax", index)

\* The while loop of parse_unary_expression: each '-' toggles minus, each
\* '!' toggles invert.  Returns <<minus, invert, index>>.
unary_prefix(toks, index, minus, invert) ==
    LET tok == TokAt(toks, index)
    IN  IF tok.s = "-" THEN unary_prefix(toks, index + 1, ~minus, invert)
        ELSE IF tok.s = "!" THEN unary_prefix(toks, index + 1, minus, ~invert)
        ELSE <<minus, invert, index>>

\* The end of parse_unary_expression: `if minus: value = -value`, then
\* `if invert: value = ~value`.
apply_unary(minus, invert, value) ==
    IF value.err # "" THEN value
    ELSE IF ~(minus \/ invert) THEN value
    ELSE IF ~value.val.isint THEN ExprErr("TypeError", value.index)
    ELSE LET v1 == IF minus THEN -value.val.n ELSE value.val.n
             v2 == IF invert THEN BitNot(v1) ELSE v1
         IN  [value EXCEPT !.val = IntVal(v2)]

parse_unary_expression(toks, index, consts) ==
    LET pre == unary_prefix(toks, index, FALSE, FALSE)
    IN  apply_unary(pre[1], pre[2], parse_primary(toks, pre[3], consts))

arithmetic_loop(toks, consts, value) ==
    LET tok == TokAt(toks, value.index)
    IN  IF value.err # "" THEN value
        ELSE IF tok.s \in {"+", "-"}
        THEN arithmetic_loop(toks, consts,
                 Combine(tok.s, value, parse_unary_expression(toks, value.index + 1, consts)))
        ELSE value

parse_arithmetic_expression(toks, index, consts) ==
    arithmetic_loop(toks, consts, parse_unary_expression(toks, index, consts))

and_loop(toks, consts, value) ==
    LET tok == TokAt(toks, value.index)
    IN  IF value.err # "" THEN value
        ELSE IF tok.s = "&"
        THEN and_loop(toks, consts,
                 Combine("&", value, parse_arithmetic_expression(toks, value.index + 1, consts)))
        ELSE value

parse_and_expression(toks, index, consts) ==
    and_loop(toks, consts, parse_arithmetic_expression(toks, index, consts))

or_loop(toks, consts, value) ==
    LET tok == TokAt(toks, value.index)
    IN  IF value.err # "" THEN value
        ELSE IF tok.s = "|"
        THEN or_loop(toks, consts,
                 Combine("|", value, parse_and_expression(toks, value.index + 1, consts)))
        ELSE value

parse_or_expression(toks, index, consts) ==
    or_loop(toks, consts, parse_and_expression(toks, index, consts))

\* parse_constant_expression: <<tokentype, result>>; an identifier that is
\* not a constant is a label, and is recorded in used_labels by the caller
\* of this operator (field label).
parse_constant_expression(toks, index, consts) ==
    LET tok == TokAt(toks, index)
    IN  IF tok.type = "identifier" /\ tok.s \notin DOMAIN consts
        THEN [tokentype |-> "identifier", label |-> tok.s,
              e |-> ExprOk(StrVal(tok.s), index + 1, <<>>)]
        ELSE [tokentype |-> "integer", label |-> "",
              e |-> parse_or_expression(toks, index, consts)]

(***************************************************************************)
(* parser.py: the Parser.  The parser's fields travel in a record p:       *)
(* index, labels, constants, instructions, used_labels, used_constants,    *)
(* err (kind of the exception raised, "" for none) and ret (return value   *)
(* of the last parse function).                                            *)
(***************************************************************************)
inst_formats == [c \in {"mov", "opd", "jmp", "jgt", "jeq", "jlt", "jge", "jle", "jne",
                        "jcs", "jis", "opi", "hlt", "not", "neg", "inc", "dec", "sub",
                        "and", "or", "add", "nop", "ics", "icc"} |->
                    CASE c \in {"sub", "and", "or", "add"} -> 3
                      [] c \in {"mov", "not", "neg", "inc", "dec"} -> 2
                      [] c \in {"opd", "opi"} -> 1
                      [] OTHER -> 0]

EmptyMap == [k \in {} |-> 0]

NewParser_OneNop ==
    [index |-> 0, labels |-> [k \in {} |-> 0], constants |-> [k \in {} |-> 0],
     instructions |-> <<Instr("nop", <<>>)>>,
     used_labels |-> <<>>, used_constants |-> <<>>,
     err |-> "", ret |-> FALSE]

\* The state of a Parser after the assignments at the top of __init__.
NewParser == [index |-> 0, labels |-> EmptyMap, constants |-> EmptyMap,
              instructions |-> <<Instr("nop", <<>>), Instr("nop", <<>>)>>,
              used_labels |-> <<>>, used_constants |-> <<>>,
              err |-> "", ret |-> FALSE]

Fail(p, kind) == [p EXCEPT !.err = kind, !.ret = FALSE]

addinstr(p, instr) ==
    [p EXCEPT !.instructions = Append(@, instr), !.ret = TRUE]

write_load_wide_NoInvert(instrs, instr, value, index) ==
    ListInsert(instrs, index, LoadImm(instr, BitAnd(value, 127)))

\* write_load on an instruction list: the new list, or the exception.
write_load_wide(instrs, instr, value, index) ==
    ListInsert(ListInsert(instrs, index, Instr("not", <<"L", "L">>)),
               index, LoadImm(instr, BitAnd(BitNot(value), 255)))

write_load(instrs, instr, tokentype, value, index) ==
    IF tokentype = "identifier"
    THEN [err |-> "", instructions |-> ListInsert(instrs, index, LoadRef(instr, value.s)),
          written |-> 1]
    ELSE IF ~value.isint
    THEN [err |-> "TypeError", instructions |-> instrs, written |-> 0]
    ELSE LET v == IF instr = "ldb" THEN BitAnd(value.n, 255)
                  ELSE BitAnd(ShiftRight(value.n, 8), 255)
         IN  IF 0 <= v /\ v <= 127
             THEN [err |-> "", instructions |-> ListInsert(instrs, index, LoadImm("ldb", v)),
                   written |-> 1]
             ELSE [err |-> "", instructions |-> write_load_wide(instrs, instr, v, index),
                   written |-> 2]

parse_label_OffByOne(p, toks) ==
    LET tok == TokAt(toks, p.index)
    IN  IF tok.type = "identifier" /\ TokAt(toks, p.index + 1).s = ":"
        THEN IF tok.s \in DOMAIN p.labels \/ tok.s \in DOMAIN p.constants
             THEN Fail(p, "Name")
             ELSE [p EXCEPT !.labels = (tok.s :> Len(p.instructions) - 1) @@ @,
                            !.index = @ + 2, !.ret = TRUE]
        ELSE [p EXCEPT !.ret = FALSE]

parse_label(p, toks) ==
    LET tok == TokAt(toks, p.index)
    IN  IF tok.type = "identifier" /\ TokAt(toks, p.index + 1).s = ":"
        THEN IF tok.s \in DOMAIN p.labels \/ tok.s \in DOMAIN p.constants
             THEN Fail(p, "Name")
             ELSE [p EXCEPT !.labels = (tok.s :> Len(p.instructions)) @@ @,
                            !.index = @ + 2, !.ret = TRUE]
        ELSE [p EXCEPT !.ret = FALSE]

\* parse_definition after its constant expression c:
\* `self.constants[name] = value`.
define_constant(p, name, c) ==
    IF c.e.err # "" THEN Fail(p, c.e.err)
    ELSE [p EXCEPT !.constants = (name :> c.e.val) @@ @,
                   !.index = c.e.index,
                   !.used_labels = IF c.tokentype = "identifier"
                                   THEN Append(@, c.label) ELSE @,
                   !.used_constants = @ \o c.e.used,
                   !.ret = TRUE]

parse_definition_LabelsUnchecked(p, toks) ==
    LET tok  == TokAt(toks, p.index)
        name == TokAt(toks, p.index + 1)
    IN  IF ~(tok.type = "keyword" /\ tok.s = "define") THEN [p EXCEPT !.ret = FALSE]
        ELSE IF name.type # "identifier" THEN Fail(p, "Argument")
        ELSE IF name.s \in DOMAIN p.constants THEN Fail(p, "Name")
        ELSE define_constant(p, name.s,
                             parse_constant_expression(toks, p.index + 2, p.constants))

parse_definition(p, toks) ==
    LET tok  == TokAt(toks, p.index)
        name == TokAt(toks, p.index + 1)
    IN  IF ~(tok.type = "keyword" /\ tok.s = "define") THEN [p EXCEPT !.ret = FALSE]
        ELSE IF name.type # "identifier" THEN Fail(p, "Argument")
        ELSE IF name.s \in DOMAIN p.labels \/ name.s \in DOMAIN p.constants
             THEN Fail(p, "Name")
        ELSE define_constant(p, name.s,
                             parse_constant_expression(toks, p.index + 2, p.constants))

\* The used_labels / used_constants / index updates that
\* parse_constant_expression makes on the parser.
AfterExpression(p, c) ==
    [p EXCEPT !.index = c.e.index,
              !.used_labels = IF c.tokentype = "identifier" THEN Append(@, c.label) ELSE @,
              !.used_constants = @ \o c.e.used]

\* write_lda after its constant expression c: write_load('ldu'),
\* addinstr(['mov', 'L', 'H']), write_load('ldb').
lda_loads(p, c) ==
    LET p1 == AfterExpression(p, c)
        w1 == write_load(p1.instructions, "ldu", c.tokentype, c.e.val, Len(p1.instructions))
        i2 == Append(w1.instructions, Instr("mov", <<"L", "H">>))
        w2 == write_load(i2, "ldb", c.tokentype, c.e.val, Len(i2))
    IN  IF c.e.err # "" THEN Fail(p, c.e.err)
        ELSE IF w1.err # "" THEN Fail(p1, w1.err)
        ELSE IF w2.err # "" THEN Fail(p1, w2.err)
        ELSE [p1 EXCEPT !.instructions = w2.instructions, !.ret = TRUE]

write_lda(p, toks) ==
    lda_loads(p, parse_constant_expression(toks, p.index, p.constants))

\* The ldb / ldu branch of parse_instruction after its constant expression
\* c: write_load(instr, tokentype, value).
load_instruction(p, instr, c) ==
    LET p1 == AfterExpression(p, c)
        w  == write_load(p1.instructions, instr, c.tokentype, c.e.val,
                         Len(p1.instructions))
    IN  IF c.e.err # "" THEN Fail(p, c.e.err)
        ELSE IF w.err # "" THEN Fail(p1, w.err)
        ELSE [p1 EXCEPT !.instructions = w.instructions, !.ret = TRUE]

\* The argument loop of parse_instruction: every argument of the format
\* is a register.
ArgumentsOk(toks, index, count) ==
    \A i \in 1..count : TokAt(toks, index + i).type = "register"

parse_instruction(p, toks) ==
    LET tok == TokAt(toks, p.index)
    IN  IF tok.type # "keyword" THEN [p EXCEPT !.ret = FALSE]
        ELSE IF tok.s \in DOMAIN inst_formats THEN
            (LET count == inst_formats[tok.s]
             IN  IF ~ArgumentsOk(toks, p.index, count) THEN Fail(p, "Argument")
                 ELSE addinstr([p EXCEPT !.index = @ + count + 1],
                               Instr(tok.s, [i \in 1..count |-> TokAt(toks, p.index + i).s])))
        ELSE IF tok.s \in {"ldb", "ldu"} THEN
            load_instruction(p, tok.s,
                             parse_constant_expression(toks, p.index + 1, p.constants))
        ELSE IF tok.s = "lda" THEN write_lda([p EXCEPT !.index = @ + 1], toks)
        ELSE [p EXCEPT !.ret = FALSE]

\* One iteration of the loop of parse_program, on the tokens of one line.
\* One pass of the loop of parse_program, in three steps.
\* `self.parse_label(); self.parse_instruction()`, l the parser after
\* parse_label.
after_label(l, toks) == IF l.err # "" THEN l ELSE parse_instruction(l, toks)

\* `if not self.parse_definition(): ...`, d the parser after
\* parse_definition.
after_definition(d, toks) ==
    IF d.err # "" \/ d.ret THEN d ELSE after_label(parse_label(d, toks), toks)

\* The new line test: a token left on the line is an unexpected token.
end_of_line(q, toks) ==
    IF q.err # "" THEN q
    ELSE IF q.index >= Len(toks) THEN q
    ELSE Fail(q, "Syntax")

parse_line(p, toks) ==
    end_of_line(after_definition(parse_definition([p EXCEPT !.index = 0], toks), toks),
                toks)

RECURSIVE parse_program(_, _, _)
parse_program(p, tokens, line) ==
    IF p.err # "" \/ line > Len(tokens) THEN p
    ELSE parse_program([parse_line(p, tokens[line]) EXCEPT !.instructions =
                           Stamp(@, Len(p.instructions), Len(@), line)],
                       tokens, line + 1)

\* The warnings collected by Parser.__init__: unused labels, then unused
\* constants.
Unused(p) ==
    [labels    |-> {n \in DOMAIN p.labels : n \notin Range(p.used_labels)},
     constants |-> {n \in DOMAIN p.constants : n \notin Range(p.used_constants)}]

ParserEnd_NoHlt(p, lines) ==
    IF p.err # "" THEN p
    ELSE IF \E n \in Range(p.used_labels) : n \notin DOMAIN p.labels
         THEN Fail(p, "Name")
    ELSE p

\* The end of Parser.__init__, p the parser after parse_program: the check
\* of used_labels, then `self.instructions.append(['hlt'])`.
ParserEnd(p, lines) ==
    IF p.err # "" THEN p
    ELSE IF \E n \in Range(p.used_labels) : n \notin DOMAIN p.labels
         THEN Fail(p, "Name")
    ELSE [p EXCEPT !.instructions =
              Append(@, [Instr("hlt", <<>>) EXCEPT !.line = lines + 1])]

\* Parser.__init__ / parse(tokens).
Parser(tokens) == ParserEnd(parse_program(NewParser, tokens, 1), Len(tokens))

(***************************************************************************)
(* label_encoder.encode_labels: the second pass.  Walks the instruction    *)
(* list in reverse; a load that still names a label is replaced by the     *)
(* expansion of the load of the label's address, and when that expansion   *)
(* is two instructions every label whose address is greater than the edit  *)
(* site moves up by one.                                                   *)
(***************************************************************************)
ShiftLabels(labs, site) ==
    [n \in DOMAIN labs |-> IF labs[n] > site THEN labs[n] + 1 ELSE labs[n]]

\* The indices (0-based) up to i that still hold a label reference.
Placeholders(instrs, i) == {j \in 0..i : instrs[j + 1].kind = "ref"}

\* The reverse walk from index i down to 0; indices without a placeholder
\* are passed over.
RECURSIVE encode_labels(_, _, _)
encode_labels(instrs, labs, i) ==
    IF Placeholders(instrs, i) = {} THEN [instructions |-> instrs, labels |-> labs]
    ELSE LET j   == CHOOSE k \in Placeholders(instrs, i) :
                        \A k2 \in Placeholders(instrs, i) : k2 <= k
             ins == instrs[j + 1]
             w   == write_load(ListDelete(instrs, j), ins.op, "integer",
                               IntVal(labs[ins.ref]), j)
         IN  encode_labels(Stamp(w.instructions, j, j + w.written, ins.line),
                           IF w.written = 2 THEN ShiftLabels(labs, j) ELSE labs,
                           j - 1)

(***************************************************************************)
(* codewriter.write_code: every instruction is encoded before any file is  *)
(* opened; the first exception aborts.                                     *)
(***************************************************************************)
EncodeAll(instrs) == [i \in 1..Len(instrs) |-> instruction_value(instrs[i])]

FirstError(encoded) ==
    IF \A i \in 1..Len(encoded) : encoded[i].err = "" THEN ""
    ELSE encoded[CHOOSE i \in 1..Len(encoded) :
                     /\ encoded[i].err # ""
                     /\ \A j \in 1..(i - 1) : encoded[j].err = ""].err

FileNames == <<".bin", "_hex.txt", "_bin.txt">>

(***************************************************************************)
(* emulator/word.py: Word, an unsigned integer of a fixed number of bits.  *)
(***************************************************************************)
Word(val, bits) == val % Pow2(bits)

\* Word.msb(): index of the highest set bit.
RECURSIVE msb(_)
msb(w) == IF w <= 0 THEN -1 ELSE 1 + msb(w \div 2)

\* Word[a:b]: bits a .. b-1.
Bits(w, a, b) == (w \div Pow2(a)) % Pow2(b - a)

\* H.concat(L): H is the upper 7 bits, L the lower 8.
concat(hi, lo) == hi * 256 + lo

WordNot(w) == 255 - w

(***************************************************************************)
(* emulator/emulator.py                                                    *)
(***************************************************************************)
OPCODE_MAPPING == [o \in 0..15 |->
    CASE o = 0  -> 13 [] o = 3  -> 49 [] o = 8  -> 15 [] o = 15 -> 51
      [] o = 12 -> 31 [] o = 11 -> 55 [] o = 4  -> 14 [] o = 7  -> 50
      [] o = 13 -> 19 [] o = 5  -> 7  [] o = 10 -> 0  [] o = 14 -> 21
      [] o = 9  -> 2  [] o = 1  -> 5  [] o = 6  -> 1  [] o = 2  -> 1]

NewDisplay == [address |-> 0, increment |-> 1, text |-> EmptyMap]

display_data_NoWrap(d, val) ==
    [d EXCEPT !.text = (d.address :> val) @@ @,
              !.address = d.address + d.increment]

\* Display.data
display_data(d, val) ==
    [d EXCEPT !.text = (d.address :> val) @@ @,
              !.address = (d.address + d.increment) % (20 * 4)]

\* Display.instruction
display_instruction(d, val) ==
    LET b == msb(val)
    IN  IF b = 0 THEN NewDisplay
        ELSE IF b = 1 THEN [d EXCEPT !.address = 0]
        ELSE IF b = 2 THEN [d EXCEPT !.increment = IF Bit(val, 1) = 1 THEN 1 ELSE -1]
        ELSE d

ROMAt(rom, a) == IF a < Len(rom) THEN rom[a + 1] ELSE 0

RAMAt(ram, a) == IF a \in DOMAIN ram THEN ram[a] ELSE 0

\* Computer.read_mem
read_mem == RAMAt(RAM, concat(H, L))

\* Computer.terminated
terminated == ROMAt(ROM, PC) = 0

execute_al_AlwaysCarry(m, opcode) ==
    LET c   == OPCODE_MAPPING[opcode]
        b0  == IF m = 1 THEN read_mem ELSE L
        x1  == IF Bit(c, 5) = 1 THEN 0 ELSE X
        x2  == IF Bit(c, 4) = 1 THEN WordNot(x1) ELSE x1
        b1  == IF Bit(c, 3) = 1 THEN 0 ELSE b0
        b2  == IF Bit(c, 2) = 1 THEN WordNot(b1) ELSE b1
        sum == x2 + b2
        out == IF Bit(c, 1) = 1 THEN Word(sum, 8) ELSE BitAnd(x2, b2)
    IN  [out |-> IF Bit(c, 0) = 1 THEN WordNot(out) ELSE out,
         CF  |-> sum >= 256]

\* Computer.execute_al: the result and the carry flag.
execute_al(m, opcode) ==
    LET c   == OPCODE_MAPPING[opcode]
        b0  == IF m = 1 THEN read_mem ELSE L
        x1  == IF Bit(c, 5) = 1 THEN 0 ELSE X
        x2  == IF Bit(c, 4) = 1 THEN WordNot(x1) ELSE x1
        b1  == IF Bit(c, 3) = 1 THEN 0 ELSE b0
        b2  == IF Bit(c, 2) = 1 THEN WordNot(b1) ELSE b1
        sum == x2 + b2
        out == IF Bit(c, 1) = 1 THEN Word(sum, 8) ELSE BitAnd(x2, b2)
    IN  [out |-> IF Bit(c, 0) = 1 THEN WordNot(out) ELSE out,
         CF  |-> IF Bit(c, 1) = 1 THEN sum >= 256 ELSE CF]

mov_source_LowBits(instruction) ==
    LET source == Bits(instruction, 0, 2)
    IN  CASE source = 1 -> L
          [] source = 2 -> IN_
          [] source = 3 -> read_mem
          [] OTHER -> X

\* The source of a mov: register code, plus bit 4 when the code is 3.
mov_source(instruction) ==
    LET code   == Bits(instruction, 0, 2)
        source == IF code = 3 THEN code + Bit(instruction, 4) ELSE code
    IN  CASE source = 1 -> L
          [] source = 2 -> IN_
          [] source = 3 -> read_mem
          [] source = 4 -> Y
          [] OTHER -> X

mov_destination_LowBits(instruction) ==
    LET code == Bits(instruction, 0, 2)
    IN  IF code = 3 THEN code + Bit(instruction, 4) ELSE code

mov_destination(instruction) ==
    LET code == Bits(instruction, 2, 4)
    IN  IF code = 3 THEN code + Bit(instruction, 4) ELSE code

\* The source of an out instruction: bits 0..1 only.
out_source(instruction) ==
    LET source == Bits(instruction, 0, 2)
    IN  CASE source = 1 -> L
          [] source = 2 -> IN_
          [] source = 3 -> read_mem
          [] OTHER -> X

jump_taken_NoZero(instruction) ==
    IF Bit(instruction, 3) = 1
    THEN \/ (Bit(instruction, 0) = 1 /\ 0 < X /\ X < 127)
         \/ (Bit(instruction, 2) = 1 /\ X >= 128)
    ELSE \/ (Bit(instruction, 1) = 1 /\ CF)
         \/ (Bit(instruction, 2) = 1 /\ IF_)

\* The jump branch of execute: whether PC is overwritten with H:L.
jump_taken(instruction) ==
    IF Bit(instruction, 3) = 1
    THEN \/ (Bit(instruction, 0) = 1 /\ 0 < X /\ X < 127)
         \/ (Bit(instruction, 1) = 1 /\ X = 0)
         \/ (Bit(instruction, 2) = 1 /\ X >= 128)
    ELSE \/ (Bit(instruction, 1) = 1 /\ CF)
         \/ (Bit(instruction, 2) = 1 /\ IF_)

(***************************************************************************)
(* Bounds and the jobs the model runs.                                     *)
(***************************************************************************)
MaxLines == 2
MaxPad == 124
ImmStride == 257
MaxInputs == 1
MaxDefs == 3
MaxGap == 2
MaxSource == 3
MaxText == 4
MaxAmount == 3
MaxOffset == 5

\* The longest source handed to the tokenizer, in lexemes.
MaxLexemes == 3

\* The longest string of prefix operators before a primary.
MaxPrefix == 3

\* The largest column of a text that characters are still added to.
MaxColumn == 2

\* Source lines, as token lists.
Line(kw) == <<Kw(kw)>>

LoadLine(kw, n) == <<Kw(kw), Int_(n)>>

RefLine(kw, name) == <<Kw(kw), Id(name)>>

RegLine(kw, regs) == <<Kw(kw)>> \o [i \in 1..Len(regs) |-> Reg(regs[i])]

Labelled(name, line) == <<Id(name), Sym(":")>> \o line

DefineLine(name, n) == <<Kw("define"), Id(name), Int_(n)>>

\* Immediates: the literal range of parse_primary sampled every ImmStride,
\* and its boundary values.
Imms == {-32768 + k * ImmStride : k \in 0..((65535 + 32768) \div ImmStride)}
        \cup {-32768, -32767, -257, -256, -129, -128, -1, 0, 1, 66, 127, 128, 255, 256,
              32767, 32768, 65535}

RegVals == {0, 5, 127, 128, 255}

InputVals == {65}

GenLines == {Line("nop"), Line("hlt"), Line("jmp"), Line("jis"),
             Labelled("loop", <<>>), Labelled("loop", RefLine("lda", "loop")),
             RefLine("ldb", "loop"), RefLine("jmp", "loop"),
             LoadLine("ldb", 128), LoadLine("ldb", 5), LoadLine("ldu", 32768),
             RegLine("mov", <<"L", "X">>), RegLine("mov", <<"X", "X">>),
             RegLine("mov", <<"X", "M">>), RegLine("add", <<"X", "L", "X">>),
             RegLine("add", <<"H", "L", "X">>), RegLine("opd", <<"L">>),
             DefineLine("K", 5), RefLine("ldb", "K")}

RECURSIVE SeqsUpTo(_, _)
SeqsUpTo(S, n) ==
    IF n = 0 THEN {<<>>}
    ELSE LET shorter == SeqsUpTo(S, n - 1)
         IN  shorter \cup {Append(q, x) : q \in {r \in shorter : Len(r) = n - 1}, x \in S}

GenPrograms == SeqsUpTo(GenLines, MaxLines) \ {<<>>}

\* `ldb a / mov L X / ldb n`: a load executed with X = a.
LoadPrograms ==
    {<<LoadLine("ldb", a), RegLine("mov", <<"L", "X">>), LoadLine("ldb", n)>> :
        a \in RegVals, n \in Imms}

LdaPrograms == {<<LoadLine("lda", e)>> : e \in Imms}

Regs == {"X", "L", "H", "M", "I", "Y"}

MovPrograms == {<<RegLine("mov", <<r, r>>)>> : r \in Regs}

\* Every arithmetic / logic instruction over every choice of registers, and
\* every opd / opi.
ArithPrograms ==
    {<<RegLine(o, <<d, a>>)>> : o \in {"not", "neg", "inc", "dec"}, d \in Regs, a \in Regs}
    \cup {<<RegLine(o, <<d, a, b>>)>> :
              o \in {"sub", "and", "or", "add"}, d \in Regs, a \in Regs, b \in Regs}

OpPrograms == {<<RegLine(o, <<r>>)>> : o \in {"opd", "opi"}, r \in Regs}

\* Every order and mix of up to MaxDefs label declarations and defines over
\* two names.
DefLines ==
    UNION {{Labelled(n, <<>>), Labelled(n, Line("nop")), DefineLine(n, 5)} : n \in {"a", "b"}}

DefPrograms == SeqsUpTo(DefLines, MaxDefs) \ {<<>>}

\* A name used on the first line and defined as a constant on the last:
\* as the whole operand of a load or define, and inside an expression.
UseLines ==
    {RefLine(o, "K") : o \in {"ldb", "ldu", "lda"}}
    \cup {<<Kw("define"), Id("J"), Id("K")>>,
          <<Kw("lda"), Id("K"), Sym("+"), Int_(1)>>,
          <<Kw("lda"), Int_(1), Sym("+"), Id("K")>>,
          <<Kw("lda"), Sym("-"), Id("K")>>,
          <<Kw("ldb"), Sym("!"), Id("K")>>,
          <<Kw("ldu"), Sym("("), Id("K"), Sym(")")>>,
          <<Kw("define"), Id("J"), Id("K"), Sym("|"), Int_(1)>>,
          <<Kw("define"), Id("J"), Int_(3), Sym("&"), Id("K")>>}

Nops(k) == [i \in 1..k |-> Line("nop")]

UseFirstPrograms ==
    {<<u>> \o Nops(k) \o <<DefineLine("K", 5)>> : u \in UseLines, k \in 0..MaxGap}

DefineFirstPrograms ==
    {<<DefineLine("K", 5)>> \o Nops(k) \o <<u>> : u \in UseLines, k \in 0..MaxGap}

\* A label used by the load on the first line and declared on the last.
ForwardPrograms ==
    {<<RefLine(o, "far")>> \o Nops(k) \o <<Labelled("far", Line("nop"))>> :
        o \in {"ldb", "ldu", "lda"}, k \in 0..MaxGap}

\* `define J <expression>` / `lda J`, and `lda <expression>`, the
\* expression one operator applied to literals at the ends of the literal
\* range.
EdgeInts == {-32768, -1, 1, 65535, 65536}

Expressions ==
    {<<Int_(a)>> : a \in EdgeInts}
    \cup {<<Sym(o), Int_(a)>> : o \in {"-", "!"}, a \in EdgeInts}
    \cup {<<Int_(a), Sym(o), Int_(b)>> : o \in {"|", "&", "+", "-"},
                                        a \in EdgeInts, b \in EdgeInts}

ExprPrograms ==
    {<<<<Kw("define"), Id("J")>> \o e, RefLine("lda", "J")>> : e \in Expressions}
    \cup {<<<<Kw("lda")>> \o e>> : e \in Expressions}

\* Registers and memory are given values that differ from one another
\* (Y = 145, H = 1, M = 196 at H:L, X = 162, L = 179), then one mov between
\* two different registers is executed.
MovSetup ==
    <<LoadLine("ldb", 145), RegLine("mov", <<"L", "Y">>),
      LoadLine("ldb", 1), RegLine("mov", <<"L", "H">>),
      LoadLine("ldb", 196), RegLine("mov", <<"L", "X">>),
      LoadLine("ldb", 179), RegLine("mov", <<"X", "M">>),
      LoadLine("ldb", 162), RegLine("mov", <<"L", "X">>),
      LoadLine("ldb", 179)>>

MovPairs == {p \in Regs \X Regs : p[1] # p[2]}

MovPairPrograms == {Append(MovSetup, RegLine("mov", <<p[1], p[2]>>)) : p \in MovPairs}

\* `define J <prefix operators> n`, for every string of up to MaxPrefix
\* operators '-' and '!'.
PrefixInts == {0, 1, 5, 65535}

Prefixes == SeqsUpTo({Sym("-"), Sym("!")}, MaxPrefix)

PrefixPrograms ==
    {<<<<Kw("define"), Id("J")>> \o pre \o <<Int_(n)>>>> : pre \in Prefixes, n \in PrefixInts}

\* Writes to the display: two characters, one display instruction, one
\* more character; and two loops that write a character for ever, one
\* with the cursor moving up and one, after the entry mode instruction
\* 0x04, with the cursor moving down.
DisplayInstructions == {0, 1, 2, 3, 4, 5, 6, 7, 8, 128}

WriteUp == <<Labelled("loop", RegLine("opd", <<"X">>)), RefLine("lda", "loop"), Line("jmp")>>

WriteDown ==
    <<LoadLine("ldb", 4), RegLine("opi", <<"L">>),
      Labelled("loop", RegLine("opd", <<"L">>)), RefLine("lda", "loop"), Line("jmp")>>

DisplayPrograms ==
    {<<RegLine("opd", <<"X">>), RegLine("opd", <<"X">>), LoadLine("ldb", n),
       RegLine("opi", <<"L">>), RegLine("opd", <<"L">>)>> : n \in DisplayInstructions}
    \cup {WriteUp, WriteDown}

ScenarioPrograms ==
    {<<Line("hlt")>>, <<LoadLine("ldb", 66)>>, <<LoadLine("ldb", 128)>>,
     <<Labelled("loop", RefLine("jmp", "loop"))>>,
     <<Labelled("loop", RefLine("lda", "loop")), Line("jmp")>>}

\* Programs long enough for a label to lie at address 128 and beyond.
\* Pad(k) is k instructions of padding: `lda 128` lines (four instructions
\* each: ldb 0, mov L H, ldb 127, not L L), then nops.
Pad(k) == [i \in 1..(k \div 4) |-> LoadLine("lda", 128)]
          \o [i \in 1..(k % 4) |-> Line("nop")]

PadLens == {0, MaxPad - 2, MaxPad - 1, MaxPad}

PaddedPrograms ==
    UNION {{<<RefLine("lda", "far")>> \o Pad(k) \o <<Labelled("far", Line("nop"))>>,
            <<Labelled("start", Line("nop"))>> \o Pad(k)
                \o <<Labelled("far", RefLine("lda", "start")), Line("jmp")>>,
            <<Labelled("start", RefLine("lda", "far"))>> \o Pad(k)
                \o <<Labelled("far", RefLine("lda", "start")), Line("jmp")>>,
            <<Labelled("a", RefLine("ldb", "far")), Labelled("b", RefLine("lda", "far"))>>
                \o Pad(k) \o <<Labelled("far", RefLine("lda", "b")), Line("jmp")>>,
            <<RefLine("lda", "end")>> \o Pad(k)
                \o <<Labelled("mid", LoadLine("ldb", 200)), Labelled("end", <<>>)>>}
           : k \in PadLens}

Programs == GenPrograms \cup LoadPrograms \cup LdaPrograms \cup MovPrograms
            \cup ScenarioPrograms \cup PaddedPrograms \cup ArithPrograms
            \cup OpPrograms \cup DefPrograms
            \cup UseFirstPrograms \cup DefineFirstPrograms \cup ForwardPrograms
            \cup ExprPrograms \cup MovPairPrograms \cup PrefixPrograms
            \cup DisplayPrograms

RawImages == {<<1, 1, 197, 232, 0>>, <<1, 1, 133, 33, 0>>}

Source(tokens) == [kind |-> "asm", tokens |-> tokens, image |-> <<>>]

Image(bytes) == [kind |-> "bin", tokens |-> <<>>, image |-> bytes]

(***************************************************************************)
(* text_utils/positioned_string.py.  A Python str is modelled as the       *)
(* record [type |-> "str", text |-> the sequence of its characters], a     *)
(* PositionedString as [type |-> "PositionedString", text, coordinates].   *)
(* NUL stands for the null character.                                      *)
(***************************************************************************)
NUL == "NUL"

OrdTable ==
    (NUL :> 0) @@ ("\n" :> 10) @@ (" " :> 32) @@ ("*" :> 42) @@
    ("-" :> 45) @@ ("/" :> 47) @@ ("0" :> 48) @@ ("1" :> 49) @@
    ("2" :> 50) @@ ("3" :> 51) @@ ("4" :> 52) @@ ("5" :> 53) @@
    ("6" :> 54) @@ ("7" :> 55) @@ ("8" :> 56) @@ ("9" :> 57) @@
    (":" :> 58) @@ ("A" :> 65) @@ ("B" :> 66) @@ ("F" :> 70) @@
    ("H" :> 72) @@ ("I" :> 73) @@ ("L" :> 76) @@ ("M" :> 77) @@
    ("X" :> 88) @@ ("Y" :> 89) @@ ("_" :> 95) @@ ("a" :> 97) @@
    ("b" :> 98) @@ ("c" :> 99) @@ ("d" :> 100) @@ ("e" :> 101) @@
    ("f" :> 102) @@ ("g" :> 103) @@ ("h" :> 104) @@ ("i" :> 105) @@
    ("j" :> 106) @@ ("l" :> 108) @@ ("m" :> 109) @@ ("n" :> 110) @@
    ("o" :> 111) @@ ("p" :> 112) @@ ("q" :> 113) @@ ("r" :> 114) @@
    ("s" :> 115) @@ ("t" :> 116) @@ ("u" :> 117) @@ ("v" :> 118) @@
    ("x" :> 120) @@ ("y" :> 121) @@ ("z" :> 122)

ord(c) == OrdTable[c]

Str(chars) == [type |-> "str", text |-> chars]

Coordinate(line, column) == [line |-> line, column |-> column]

PositionedString(chars, coordinates) ==
    [type |-> "PositionedString", text |-> chars, coordinates |-> coordinates]

\* A Python slice s[start:stop] of a sequence: negative bounds count from
\* the end, and bounds are clamped to the sequence.
SliceBound(n, k) ==
    LET m == IF k < 0 THEN k + n ELSE k
    IN  IF m < 0 THEN 0 ELSE IF m > n THEN n ELSE m

PySlice(s, start, stop) ==
    LET lo == SliceBound(Len(s), start)
        hi == SliceBound(Len(s), stop)
    IN  IF lo >= hi THEN <<>> ELSE SubSeq(s, lo + 1, hi)

\* str.splitlines(keepends=False) for the line break "\n".
RECURSIVE splitlines(_)
splitlines(chars) ==
    IF chars = <<>> THEN <<>>
    ELSE LET breaks == {i \in 1..Len(chars) : chars[i] = "\n"}
         IN  IF breaks = {} THEN <<chars>>
             ELSE LET b == CHOOSE i \in breaks : \A j \in breaks : i <= j
                  IN  <<SubSeq(chars, 1, b - 1)>>
                          \o splitlines(SubSeq(chars, b + 1, Len(chars)))

\* The characters and coordinates of lines i.. of PositionedString.create_string.
RECURSIVE create_from(_, _, _)
create_from(lines, i, line) ==
    IF i > Len(lines) THEN PositionedString(<<>>, <<>>)
    ELSE LET rest == create_from(lines, i + 1, line)
         IN  PositionedString(
                 lines[i] \o rest.text,
                 [j \in 1..Len(lines[i]) |-> Coordinate(i - 1 + line, j - 1)]
                     \o rest.coordinates)

create_string(chars, line) == create_from(splitlines(chars), 1, line)

empty_string == PositionedString(<<>>, <<>>)

\* PositionedString.__len__, __eq__ (against a str or a PositionedString)
\* and line(index).
len(self) == Len(self.text)

equals(self, other) == self.text = other.text

\* PositionedString.__getitem__ with a slice key.
getitem_FromStart(self, start, stop) ==
    PositionedString(PySlice(self.text, start, stop),
                     PySlice(self.coordinates, 0, stop - start))

getitem(self, start, stop) ==
    PositionedString(PySlice(self.text, start, stop),
                     PySlice(self.coordinates, start, stop))

\* PositionedString.__getitem__ with an integer key that is in range.
getchar(self, key) ==
    LET k == IF key < 0 THEN key + len(self) ELSE key
    IN  PositionedString(<<self.text[k + 1]>>, <<self.coordinates[k + 1]>>)

InRange(self, key) == -len(self) <= key /\ key < len(self)

line_of(self, index) ==
    self.coordinates[(IF index < 0 THEN index + len(self) ELSE index) + 1].line

\* PositionedString.__add__.
add_SameColumn(self, other) ==
    LET line   == IF len(self) > 0 THEN self.coordinates[len(self)].line ELSE 0
        column == IF len(self) > 0 THEN self.coordinates[len(self)].column ELSE 0
        o      == IF other.type = "str"
                  THEN PositionedString(other.text,
                           [i \in 1..Len(other.text) |-> Coordinate(line, column)])
                  ELSE other
    IN  PositionedString(self.text \o o.text, self.coordinates \o o.coordinates)

add(self, other) ==
    LET line   == IF len(self) > 0 THEN self.coordinates[len(self)].line ELSE 0
        column == IF len(self) > 0 THEN self.coordinates[len(self)].column + 1 ELSE 0
        o      == IF other.type = "str"
                  THEN PositionedString(other.text,
                           [i \in 1..Len(other.text) |-> Coordinate(line, column)])
                  ELSE other
    IN  PositionedString(self.text \o o.text, self.coordinates \o o.coordinates)

\* PositionedString.insert; the assertion on index is the caller's guard.
insert(self, index, string) ==
    LET i == IF index < 0 THEN index + len(self) + 1 ELSE index
    IN  add(add(getitem(self, 0, i), string), getitem(self, i, len(self)))

\* PositionedString.__delitem__ with an integer key that is in range: the
\* character and its coordinate go.
delitem_at(self, key) ==
    PositionedString(ListDelete(self.text, key), ListDelete(self.coordinates, key))

\* PositionedString.__delitem__ with the slice start:stop, start <= stop.
delitem_slice(self, start, stop) ==
    PositionedString(PySlice(self.text, 0, start) \o PySlice(self.text, stop, len(self)),
                     PySlice(self.coordinates, 0, start)
                         \o PySlice(self.coordinates, stop, Len(self.coordinates)))

(***************************************************************************)
(* text_utils/code.py: Code, a text with an offset, and LinedCode, which   *)
(* keeps the line being processed in text and the rest in remaining_text.  *)
(* A cursor is [text, remaining_text, offset]; a method returns            *)
(* [self |-> the cursor after the call, ret |-> what it returned].         *)
(***************************************************************************)
None == [kind |-> "None", value |-> empty_string, flag |-> FALSE, exc |-> ""]

Value(v) == [kind |-> "value", value |-> v, flag |-> FALSE, exc |-> ""]

Bool(b) == [kind |-> "bool", value |-> empty_string, flag |-> b, exc |-> ""]

Raised(e) == [kind |-> "raised", value |-> empty_string, flag |-> FALSE, exc |-> e]

Absent == [some |-> FALSE, v |-> 0]

Given(v) == [some |-> TRUE, v |-> v]

Returns(self, r) == [self |-> self, ret |-> r]

\* Code.__init__ on a PositionedString.
Code(t) == [text |-> t, remaining_text |-> empty_string, offset |-> 0]

\* Code.substring(start, end, length, relative).
substring(self, start, end, length, relative) ==
    LET default == IF relative THEN 0 ELSE self.offset
        s0 == IF start.some THEN start.v
              ELSE IF ~end.some \/ ~length.some THEN default ELSE end.v - length.v
        e0 == IF end.some THEN end.v
              ELSE IF ~length.some THEN default ELSE s0 + length.v
        s1 == IF relative THEN s0 + self.offset ELSE s0
        e1 == IF relative THEN e0 + self.offset ELSE e0
        e2 == IF e1 < len(self.text) THEN e1 ELSE len(self.text)
    IN  getitem(self.text, s1, e2)

\* Code.has_more.
has_more(self) == self.offset < len(self.text)

\* Code.advance.
advance_ByAmount(self, amount) ==
    LET temp == substring(self, Absent, Absent, Given(amount), TRUE)
    IN  Returns([self EXCEPT !.offset = @ + amount], Value(temp))

advance(self, amount) ==
    LET temp == substring(self, Absent, Absent, Given(amount), TRUE)
    IN  Returns([self EXCEPT !.offset = @ + len(temp)], Value(temp))

\* Code.advance_past.
advance_past(self, match) ==
    LET found == {i \in self.offset..(len(self.text) - 1) :
                     equals(getitem(self.text, i, i + Len(match.text)), match)}
    IN  IF found = {} THEN Returns(self, None)
        ELSE LET i == CHOOSE k \in found : \A j \in found : k <= j
             IN  Returns([self EXCEPT !.offset = i + Len(match.text)],
                         Value(getitem(self.text, self.offset, i + Len(match.text))))

\* Code.match(*matches), from the k-th of the strings given.
RECURSIVE match_from(_, _, _)
match_from(self, matches, k) ==
    IF k > Len(matches) THEN Returns(self, None)
    ELSE LET n   == Len(matches[k].text)
             sub == substring(self, Absent, Absent, Given(n), TRUE)
             adv == [self EXCEPT !.offset = @ + n]
         IN  IF equals(sub, matches[k])
             THEN Returns(adv, Value(substring(adv, Absent, Given(0), Given(n), TRUE)))
             ELSE match_from(self, matches, k + 1)

match(self, matches) == match_from(self, matches, 1)

\* Code.__getitem__: the character at item, relative to the offset; the
\* null character with the position of the last character when that is out
\* of range; IndexError when the text is empty.
code_getitem(self, item) ==
    IF InRange(self.text, item + self.offset)
    THEN Value(getchar(self.text, item + self.offset))
    ELSE IF len(self.text) = 0 THEN Raised("IndexError")
    ELSE Value(PositionedString(<<NUL>>, getchar(self.text, -1).coordinates))

\* Code.match_range.
match_range(self, lower, upper) ==
    LET c == code_getitem(self, 0)
    IN  IF c.kind = "raised" THEN Returns(self, c)
        ELSE IF ord(lower) <= ord(c.value.text[1]) /\ ord(c.value.text[1]) <= ord(upper)
        THEN LET adv == [self EXCEPT !.offset = @ + 1]
             IN  IF InRange(adv.text, adv.offset - 1)
                 THEN Returns(adv, Value(getchar(adv.text, adv.offset - 1)))
                 ELSE Returns(adv, Raised("IndexError"))
        ELSE Returns(self, None)

\* Code.__len__ and LinedCode.__len__.
code_len(self) ==
    IF len(self.text) - self.offset > 0 THEN len(self.text) - self.offset ELSE 0

\* LinedCode.skip_line.
skip_line(self) ==
    IF len(self.remaining_text) = 0
    THEN Returns([self EXCEPT !.offset = len(self.text)], Bool(FALSE))
    ELSE LET line_number == line_of(self.remaining_text, 0)
             rem == self.remaining_text
         IN  IF line_number = line_of(rem, -1)
             THEN Returns([text |-> rem, remaining_text |-> empty_string, offset |-> 0],
                          Bool(TRUE))
             ELSE LET i == CHOOSE k \in 0..(len(rem) - 1) :
                               /\ line_of(rem, k) # line_number
                               /\ \A j \in 0..(k - 1) : line_of(rem, j) = line_number
                  IN  Returns([text |-> getitem(rem, 0, i),
                               remaining_text |-> getitem(rem, i, len(rem)),
                               offset |-> 0],
                              Bool(TRUE))

\* LinedCode.advance_line.
advance_line_Always(self) == skip_line(self)

advance_line(self) ==
    IF has_more(self) THEN Returns(self, Bool(FALSE)) ELSE skip_line(self)

\* LinedCode.__init__ on a PositionedString.
LinedCode(t) == advance_line([text |-> t, remaining_text |-> t, offset |-> 0]).self

\* LinedCode.has_more.
lined_has_more(self) == has_more(self) \/ len(self.remaining_text) > 0

(***************************************************************************)
(* cstring.py (Code, LinedCode) and assembler/tokenizer.py.  The           *)
(* PositionedString of cstring.py keeps parallel lists lines and positions *)
(* where text_utils keeps a list of coordinates; its slicing, length and   *)
(* line() are the same, and the operators above are used for both.         *)
(***************************************************************************)
isspace(c) == ord(c) \in {9, 10, 11, 12, 13, 32}

isalpha(c) == ord(c) \in (65..90) \cup (97..122)

isdigit(c) == ord(c) \in 48..57

isalnum(c) == isalpha(c) \/ isdigit(c)

\* str.splitlines(keepends=True) for the line break "\n".
RECURSIVE splitlines_keepends(_)
splitlines_keepends(chars) ==
    IF chars = <<>> THEN <<>>
    ELSE LET breaks == {i \in 1..Len(chars) : chars[i] = "\n"}
         IN  IF breaks = {} THEN <<chars>>
             ELSE LET b == CHOOSE i \in breaks : \A j \in breaks : i <= j
                  IN  <<SubSeq(chars, 1, b)>>
                          \o splitlines_keepends(SubSeq(chars, b + 1, Len(chars)))

\* cstring.PositionedString.create_string(text, keepends=True).
cstring_create_string(chars) == create_from(splitlines_keepends(chars), 1, 0)

\* PositionedString.__delitem__ with the slice start:stop, 0 <= start <= stop.
delitem(self, start, stop) ==
    PositionedString(PySlice(self.text, 0, start) \o PySlice(self.text, stop, len(self)),
                     PySlice(self.coordinates, 0, start)
                         \o PySlice(self.coordinates, stop, len(self)))

\* cstring.PositionedString.__delitem__ with an integer key: the key is not
\* a slice, so the text stays and only the entries of lines and positions
\* go.
cstring_delitem_at(self, key) ==
    PositionedString(self.text, ListDelete(self.coordinates, key))

\* cstring.PositionedString.__add__ with a str: every added character gets
\* the last line and position (0, 0 for an empty string).  self.lines[-1]
\* needs a stored coordinate.
cstring_add(self, other) ==
    LET last == IF len(self) > 0 THEN self.coordinates[Len(self.coordinates)]
                ELSE Coordinate(0, 0)
        o    == IF other.type = "str"
                THEN PositionedString(other.text, [i \in 1..Len(other.text) |-> last])
                ELSE other
    IN  PositionedString(self.text \o o.text, self.coordinates \o o.coordinates)

\* cstring.PositionedString.insert of a str at 0 <= index <= len(text): the
\* added characters get the line and position of the character before.
cstring_insert(self, index, string) ==
    LET before == IF index > 0 THEN self.coordinates[index] ELSE Coordinate(0, 0)
        o == PositionedString(string.text, [i \in 1..Len(string.text) |-> before])
    IN  cstring_add(cstring_add(getitem(self, 0, index), o), getitem(self, index, len(self)))

\* self.string.substring(i, i + 2) == m
starts(self, i, m) ==
    /\ i + Len(m) <= len(self)
    /\ \A k \in 1..Len(m) : self.text[i + k] = m[k]

Least(S) == CHOOSE i \in S : \A j \in S : i <= j

Greatest(S) == CHOOSE i \in S : \A j \in S : i >= j

Parsed_(string) == [string |-> string, err |-> ""]

\* Code.removecomments: the end-of-line comments at index i ...
RECURSIVE remove_eol(_, _)
remove_eol(string, i) ==
    IF ~starts(string, i, <<"/", "/">>) THEN string
    ELSE remove_eol(
             delitem(string, i,
                     Least({j \in (i + 2)..len(string) :
                               j = len(string) \/ line_of(string, j) # line_of(string, i)})),
             i)

\* ... then the traditional comments at index i ...
RECURSIVE remove_traditional(_, _)
remove_traditional(string, i) ==
    IF ~starts(string, i, <<"/", "*">>) THEN Parsed_(string)
    ELSE LET closes == {j \in (i + 2)..(len(string) - 1) : starts(string, j, <<"*", "/">>)}
         IN  IF closes = {} THEN [string |-> string, err |-> "Syntax"]
             ELSE remove_traditional(delitem(string, i, Least(closes) + 2), i)

\* ... for i = 0, 1, ... while i < len(self.string) - 1.
RECURSIVE removecomments(_, _)
removecomments_next(r, i) ==
    IF r.err # "" THEN r ELSE removecomments(r.string, i + 1)

removecomments(string, i) ==
    IF ~(i < len(string) - 1) THEN Parsed_(string)
    ELSE removecomments_next(remove_traditional(remove_eol(string, i), i), i)

\* PositionedString.isspace.
string_isspace(self) ==
    len(self) > 0 /\ \A i \in 1..len(self) : isspace(self.text[i])

\* Code.stripwhitespace on a string whose characters are all on one line
\* (the third loop, over line boundaries inside the string, has nothing to
\* do there).
strip_leading(self) ==
    LET solid == {i \in 0..(len(self) - 1) : ~isspace(self.text[i + 1])}
    IN  IF solid = {} THEN self ELSE delitem(self, 0, Least(solid))

strip_trailing(self) ==
    LET solid == {i \in 0..(len(self) - 1) : ~isspace(self.text[i + 1])}
    IN  IF solid = {} THEN self ELSE delitem(self, Greatest(solid) + 1, len(self))

stripwhitespace(self) == strip_trailing(strip_leading(self))

\* LinedCode.__init__: the string cut where the line number changes, each
\* piece stripped, the pieces that are all whitespace dropped.
RECURSIVE separate_lines(_)
separate_lines(string) ==
    IF len(string) = 0 THEN <<>>
    ELSE LET later == {i \in 1..(len(string) - 1) :
                          line_of(string, i) # line_of(string, 0)}
             cut   == IF later = {} THEN len(string) ELSE Least(later)
             line  == stripwhitespace(getitem(string, 0, cut))
         IN  (IF string_isspace(line) THEN <<>> ELSE <<line>>)
                 \o separate_lines(getitem(string, cut, len(string)))

\* A LinedCode: its lines, the line being processed and the offset in it.
cstring_LinedCode(chars) ==
    LET r == removecomments(cstring_create_string(chars), 0)
    IN  IF r.err # "" THEN [lines |-> <<>>, line |-> 0, offset |-> 0, err |-> r.err]
        ELSE IF len(r.string) = 0
        THEN [lines |-> <<>>, line |-> 0, offset |-> 0, err |-> "IndexError"]
        ELSE [lines |-> separate_lines(r.string), line |-> 0, offset |-> 0, err |-> ""]

\* Code.__len__ and Code.__getitem__ of the line being processed.
remaining(code) ==
    LET n == len(code.lines[code.line + 1]) - code.offset
    IN  IF n > 0 THEN n ELSE 0

char_at(code, item) ==
    IF item < remaining(code)
    THEN code.lines[code.line + 1].text[item + code.offset + 1]
    ELSE NUL

\* LinedCode.hasmore; with no line at all, self.lines[self.line] raises.
hasmore(code) ==
    code.line < Len(code.lines) - 1 \/ code.offset < len(code.lines[code.line + 1])

\* Code.skip_whitespace: advance() while self[0].isspace().
RECURSIVE skip_whitespace(_)
skip_whitespace(code) ==
    IF isspace(char_at(code, 0))
    THEN skip_whitespace([code EXCEPT !.offset = @ + 1])
    ELSE code

\* Code.match: is the string at the offset of the current line?
cstring_match(code, m) == starts(code.lines[code.line + 1], code.offset, m)

\* Code.matchrange: is the character at the offset within lower..upper?
in_range(code, lower, upper) ==
    ord(lower) <= ord(char_at(code, 0)) /\ ord(char_at(code, 0)) <= ord(upper)

keywords ==
    {<<"l", "d", "a">>, <<"l", "d", "b">>, <<"l", "d", "u">>,
     <<"m", "o", "v">>, <<"j", "m", "p">>, <<"j", "l", "t">>,
     <<"j", "e", "q">>, <<"j", "g", "t">>, <<"j", "l", "e">>,
     <<"j", "g", "e">>, <<"j", "n", "e">>, <<"n", "o", "p">>,
     <<"j", "i", "s">>, <<"j", "c", "s">>, <<"o", "p", "d">>,
     <<"o", "p", "i">>, <<"h", "l", "t">>, <<"n", "o", "t">>,
     <<"n", "e", "g">>, <<"i", "n", "c">>, <<"d", "e", "c">>,
     <<"s", "u", "b">>, <<"a", "n", "d">>, <<"o", "r">>, <<"a", "d", "d">>,
     <<"i", "c", "s">>, <<"i", "c", "c">>, <<"d", "e", "f", "i", "n", "e">>}

tokenizer_registers == {<<"L">>, <<"H">>, <<"M">>, <<"I">>, <<"X">>, <<"Y">>}

(***************************************************************************)
(* Tokenizer.  A tokenizer is [code, tokens, err, ret]: the LinedCode, the *)
(* token lines, the exception raised ("" for none) and the value the last  *)
(* tokenize_ method returned.                                              *)
(***************************************************************************)
Token(type, value) == [type |-> type, value |-> value]

raise(t, e) == [t EXCEPT !.err = e, !.ret = FALSE]

returns(t, b) == [t EXCEPT !.ret = b]

matched(t, m) == [t EXCEPT !.code.offset = @ + Len(m)]

\* Tokenizer.addtoken.
addtoken(t, token) ==
    [t EXCEPT !.tokens[Len(t.tokens)] = Append(@, token), !.ret = TRUE]

\* addtoken('integer', PositionObject(n, first.line, first.pos)): first is
\* a PositionedString, which has a method line but no attribute pos.
addtoken_integer(t, n) == raise(t, "AttributeError")

\* The value of a digit character (PositionedString.__int__).
digit(c) ==
    IF isdigit(c) THEN ord(c) - 48
    ELSE IF ord(c) \in 97..102 THEN ord(c) - 87
    ELSE ord(c) - 55

ishex(c) == isdigit(c) \/ ord(c) \in 97..102 \/ ord(c) \in 65..70

\* The loops of tokenize_bin, tokenize_oct, tokenize_dec and tokenize_hex:
\* digits of the base are advanced past and added to n.
RECURSIVE digits(_, _, _, _)
digits(t, n, base, allowed) ==
    IF allowed[char_at(t.code, 0)]
    THEN digits(matched(t, <<char_at(t.code, 0)>>),
                base * n + digit(char_at(t.code, 0)), base, allowed)
    ELSE addtoken_integer(t, n)

isbin == [c \in DOMAIN OrdTable |-> c \in {"0", "1"}]

isoct == [c \in DOMAIN OrdTable |-> ord(c) \in 48..55]

isdec == [c \in DOMAIN OrdTable |-> isdigit(c)]

ishexdigit == [c \in DOMAIN OrdTable |-> ishex(c)]

tokenize_bin(t, pos) ==
    IF ~(cstring_match(t.code, <<"0", "b">>) \/ cstring_match(t.code, <<"0", "B">>)) THEN returns(t, FALSE)
    ELSE IF ~isbin[char_at(matched(t, <<"0", "b">>).code, 0)] THEN raise(t, "Syntax")
    ELSE digits(matched(t, <<"0", "b">>), 0, 2, isbin)

tokenize_hex(t, pos) ==
    IF ~(cstring_match(t.code, <<"0", "x">>) \/ cstring_match(t.code, <<"0", "X">>)) THEN returns(t, FALSE)
    ELSE IF ~ishex(char_at(matched(t, <<"0", "x">>).code, 0)) THEN raise(t, "Syntax")
    ELSE digits(matched(t, <<"0", "x">>), 0, 16, ishexdigit)

tokenize_oct(t, pos) ==
    IF ~cstring_match(t.code, <<"0">>) THEN returns(t, FALSE)
    ELSE digits(matched(t, <<"0">>), 0, 8, isoct)

tokenize_dec(t, pos) ==
    IF ~in_range(t.code, "0", "9") THEN returns(t, FALSE)
    ELSE digits(t, 0, 10, isdec)

\* tokenize_char on the characters of the model (none is a quotation mark).
tokenize_char(t, pos) == returns(t, FALSE)

\* tokenize_int after the optional '-': the five kinds in order.
first_integer(t, pos) ==
    LET bin == tokenize_bin(t, pos)
        hex == tokenize_hex(t, pos)
        oct == tokenize_oct(t, pos)
        dec == tokenize_dec(t, pos)
    IN  IF bin.ret \/ bin.err # "" THEN bin
        ELSE IF hex.ret \/ hex.err # "" THEN hex
        ELSE IF oct.ret \/ oct.err # "" THEN oct
        ELSE IF dec.ret \/ dec.err # "" THEN dec
        ELSE IF ~pos THEN raise(t, "Syntax")
        ELSE returns(t, FALSE)

tokenize_int(t) ==
    IF cstring_match(t.code, <<"-">>)
    THEN first_integer(matched(t, <<"-">>), FALSE)
    ELSE first_integer(t, TRUE)

\* The word of tokenize_keyword_identifier_register: the alphanumeric
\* characters and underscores from the offset on.
RECURSIVE word_from(_, _)
word_from(code, i) ==
    IF isalnum(char_at(code, i)) \/ char_at(code, i) = "_"
    THEN <<char_at(code, i)>> \o word_from(code, i + 1)
    ELSE <<>>

classify(t, word) ==
    addtoken(matched(t, word),
             Token(IF word \in keywords THEN "keyword"
                   ELSE IF word \in tokenizer_registers THEN "register"
                   ELSE "identifier", word))

tokenize_keyword_identifier_register(t) ==
    IF ~(isalpha(char_at(t.code, 0)) \/ char_at(t.code, 0) = "_") THEN returns(t, FALSE)
    ELSE classify(t, word_from(t.code, 0))

tokenize_label(t) ==
    IF cstring_match(t.code, <<":">>) THEN addtoken(matched(t, <<":">>), Token("label", <<":">>))
    ELSE returns(t, FALSE)

\* Tokenizer.newline, with LinedCode.advanceline.
newline(t) ==
    IF t.code.line < Len(t.code.lines) - 1
       /\ ~(t.code.offset < len(t.code.lines[t.code.line + 1]))
    THEN [t EXCEPT !.code.line = @ + 1, !.code.offset = 0,
                   !.tokens = Append(@, <<>>), !.ret = TRUE]
    ELSE returns(t, FALSE)

\* One round of the loop of Tokenizer.__init__, after skip_whitespace.
after_label_token(t, lab) ==
    IF lab.ret \/ lab.err # "" THEN lab
    ELSE IF newline(t).ret THEN newline(t)
    ELSE raise(t, "Syntax")

after_word(t, word) ==
    IF word.ret \/ word.err # "" THEN word ELSE after_label_token(t, tokenize_label(t))

after_int(t, int) ==
    IF int.ret \/ int.err # "" THEN int
    ELSE after_word(t, tokenize_keyword_identifier_register(t))

next_token(t) == after_int(t, tokenize_int(t))

RECURSIVE tokenize_loop(_)
tokenize_loop(t) ==
    IF t.err # "" THEN t
    ELSE IF t.code.lines = <<>> THEN raise(t, "IndexError")
    ELSE IF ~hasmore(t.code) THEN t
    ELSE tokenize_loop(next_token([t EXCEPT !.code = skip_whitespace(@)]))

\* Tokenizer(text): the token lines, or the exception.
Tokenizer_(code) ==
    tokenize_loop([code |-> code, tokens |-> <<<<>>>>, err |-> code.err, ret |-> FALSE])

Tokenizer(chars) ==
    LET t == Tokenizer_(cstring_LinedCode(chars))
    IN  [err |-> t.err, tokens |-> IF t.err # "" THEN <<>> ELSE t.tokens]

Jobs == {Source(t) : t \in Programs} \cup {Image(b) : b \in RawImages}

(***************************************************************************)
(* The state machine.                                                      *)
(***************************************************************************)
\* The jobs of the runs whose progress is checked: the end-to-end scenarios.
LiveJobs == {Source(t) : t \in ScenarioPrograms \cup MovPrograms}
            \cup {Image(b) : b \in RawImages}

NoCall ==
    [op |-> "", index |-> 0, stop |-> 0, strings |-> <<>>, lower |-> "", upper |-> "",
     before |-> Code(empty_string)]

\* No source has been handed to the tokenizer.
NoLex ==
    /\ sources = [plain |-> <<>>, padded |-> <<>>]
    /\ tokenized = <<>>

\* No text object is in use.
NoText ==
    /\ class = ""
    /\ text = empty_string
    /\ remaining_text = empty_string
    /\ offset = 0
    /\ call = NoCall
    /\ ret = None
    /\ NoLex

InitWith(jobs) ==
    /\ job \in jobs
    /\ phase = IF job.kind = "asm" THEN "tokens" ELSE "image"
    /\ NoText
    /\ err = ""
    /\ instructions = <<>>
    /\ labels = EmptyMap
    /\ constants = EmptyMap
    /\ warnings = [labels |-> {}, constants |-> {}]
    /\ machinecode = <<>>
    /\ files = <<>>
    /\ PC = 0 /\ L = 0 /\ H = 0 /\ X = 0 /\ Y = 0 /\ IN_ = 0
    /\ CF = FALSE /\ IF_ = FALSE
    /\ RAM = EmptyMap
    /\ ROM = <<>>
    /\ display = NewDisplay
    /\ inputs = 0

Init == InitWith(Jobs)

LiveInit == InitWith(LiveJobs)

\* assemble(): instructions, warnings, labels = parse(tokens)
Parse ==
    /\ phase = "tokens"
    /\ \E p \in {Parser(job.tokens)} :
           IF p.err # ""
           THEN /\ phase' = "failed"
                /\ err' = p.err
                /\ UNCHANGED <<instructions, labels, constants, warnings>>
           ELSE /\ phase' = "parsed"
                /\ err' = ""
                /\ instructions' = p.instructions
                /\ labels' = p.labels
                /\ constants' = p.constants
                /\ warnings' = Unused(p)
    /\ UNCHANGED <<job, machinecode, files>>
    /\ UNCHANGED emuVars
    /\ UNCHANGED textVars

\* assemble(): encode_labels(instructions, labels)
EncodeLabels ==
    /\ phase = "parsed"
    /\ \E r \in {encode_labels(instructions, labels, Len(instructions) - 1)} :
           /\ instructions' = r.instructions
           /\ labels' = r.labels
    /\ phase' = "resolved"
    /\ UNCHANGED <<job, err, constants, warnings, machinecode, files>>
    /\ UNCHANGED emuVars
    /\ UNCHANGED textVars

WriteCode_OpensFirst ==
    /\ phase = "resolved"
    /\ \E encoded \in {EncodeAll(instructions)} :
       LET failure == FirstError(encoded)
       IN  IF failure # ""
           THEN /\ phase' = "failed"
                /\ err' = failure
                /\ files' = <<FileNames[1]>>
                /\ UNCHANGED machinecode
           ELSE /\ phase' = "written"
                /\ err' = ""
                /\ machinecode' = [i \in 1..Len(encoded) |-> encoded[i].byte]
                /\ files' = FileNames
    /\ UNCHANGED <<job, instructions, labels, constants, warnings>>
    /\ UNCHANGED emuVars
    /\ UNCHANGED textVars

\* assemble(): files = write_code(instructions, file_name)
WriteCode ==
    /\ phase = "resolved"
    /\ \E encoded \in {EncodeAll(instructions)} :
       LET failure == FirstError(encoded)
       IN  IF failure # ""
           THEN /\ phase' = "failed"
                /\ err' = failure
                /\ UNCHANGED <<machinecode, files>>
           ELSE /\ phase' = "written"
                /\ err' = ""
                /\ machinecode' = [i \in 1..Len(encoded) |-> encoded[i].byte]
                /\ files' = FileNames
    /\ UNCHANGED <<job, instructions, labels, constants, warnings>>
    /\ UNCHANGED emuVars
    /\ UNCHANGED textVars

\* Computer.__init__ on the bytes of the .bin file.
Boot ==
    /\ phase \in {"written", "image"}
    /\ ROM' = IF job.kind = "asm" THEN machinecode ELSE job.image
    /\ PC' = 0 /\ L' = 0 /\ H' = 0 /\ X' = 0 /\ Y' = 0 /\ IN_' = 0
    /\ CF' = FALSE /\ IF_' = FALSE
    /\ RAM' = EmptyMap
    /\ display' = NewDisplay
    /\ phase' = "running"
    /\ UNCHANGED <<job, err, inputs>>
    /\ UNCHANGED asmVars
    /\ UNCHANGED textVars

Execute_AcknowledgesInput ==
    /\ phase = "running"
    /\ LET instruction == ROMAt(ROM, PC)
           b   == msb(instruction)
           al  == execute_al(Bit(instruction, 4), Bits(instruction, 0, 4))
           src == mov_source(instruction)
           dst == mov_destination(instruction)
       IN  IF instruction = 0
           THEN UNCHANGED <<PC, L, H, X, Y, CF, RAM, display>>
           ELSE /\ PC' = IF b = 4 /\ jump_taken(instruction)
                         THEN concat(H, L) ELSE Word(PC + 1, 15)
                /\ L' = IF b = 7 THEN Bits(instruction, 0, 7)
                        ELSE IF b = 6 /\ Bit(instruction, 5) = 0 THEN al.out
                        ELSE IF b = 5 /\ dst = 1 THEN src
                        ELSE L
                /\ X' = IF b = 6 /\ Bit(instruction, 5) = 1 THEN al.out
                        ELSE IF b = 5 /\ dst = 0 THEN src
                        ELSE X
                /\ H' = IF b = 5 /\ dst = 2 THEN Bits(src, 0, 7)
                        ELSE IF b = 1 /\ (CF <=> (Bit(instruction, 0) = 1)) THEN Word(H + 1, 7)
                        ELSE H
                /\ Y' = IF b = 5 /\ dst = 3 THEN src ELSE Y
                /\ RAM' = IF b = 5 /\ dst = 4 THEN (concat(H, L) :> src) @@ RAM ELSE RAM
                /\ CF' = IF b = 6 THEN al.CF ELSE CF
                /\ display' = IF b = 3
                              THEN IF Bit(instruction, 2) = 1
                                   THEN display_data(display, out_source(instruction))
                                   ELSE display_instruction(display, out_source(instruction))
                              ELSE display
    /\ IF_' = (IF_ /\ ~(msb(ROMAt(ROM, PC)) = 4 /\ jump_taken(ROMAt(ROM, PC))))
    /\ UNCHANGED <<job, phase, err, IN_, ROM, inputs>>
    /\ UNCHANGED asmVars
    /\ UNCHANGED textVars

\* Computer.execute
Execute ==
    /\ phase = "running"
    /\ LET instruction == ROMAt(ROM, PC)
           b   == msb(instruction)
           al  == execute_al(Bit(instruction, 4), Bits(instruction, 0, 4))
           src == mov_source(instruction)
           dst == mov_destination(instruction)
       IN  IF instruction = 0
           THEN UNCHANGED <<PC, L, H, X, Y, CF, RAM, display>>
           ELSE /\ PC' = IF b = 4 /\ jump_taken(instruction)
                         THEN concat(H, L) ELSE Word(PC + 1, 15)
                /\ L' = IF b = 7 THEN Bits(instruction, 0, 7)
                        ELSE IF b = 6 /\ Bit(instruction, 5) = 0 THEN al.out
                        ELSE IF b = 5 /\ dst = 1 THEN src
                        ELSE L
                /\ X' = IF b = 6 /\ Bit(instruction, 5) = 1 THEN al.out
                        ELSE IF b = 5 /\ dst = 0 THEN src
                        ELSE X
                /\ H' = IF b = 5 /\ dst = 2 THEN Bits(src, 0, 7)
                        ELSE IF b = 1 /\ (CF <=> (Bit(instruction, 0) = 1)) THEN Word(H + 1, 7)
                        ELSE H
                /\ Y' = IF b = 5 /\ dst = 3 THEN src ELSE Y
                /\ RAM' = IF b = 5 /\ dst = 4 THEN (concat(H, L) :> src) @@ RAM ELSE RAM
                /\ CF' = IF b = 6 THEN al.CF ELSE CF
                /\ display' = IF b = 3
                              THEN IF Bit(instruction, 2) = 1
                                   THEN display_data(display, out_source(instruction))
                                   ELSE display_instruction(display, out_source(instruction))
                              ELSE display
    /\ UNCHANGED <<job, phase, err, IN_, IF_, ROM, inputs>>
    /\ UNCHANGED asmVars
    /\ UNCHANGED textVars

Input_Restarts(val) ==
    /\ phase = "running"
    /\ inputs < MaxInputs
    /\ IN_' = Word(val, 8)
    /\ IF_' = TRUE
    /\ inputs' = inputs + 1
    /\ PC' = 0
    /\ UNCHANGED <<job, phase, err, L, H, X, Y, CF, RAM, ROM, display>>
    /\ UNCHANGED asmVars
    /\ UNCHANGED textVars

\* Computer.input
Input(val) ==
    /\ phase = "running"
    /\ inputs < MaxInputs
    /\ IN_' = Word(val, 8)
    /\ IF_' = TRUE
    /\ inputs' = inputs + 1
    /\ UNCHANGED <<job, phase, err, PC, L, H, X, Y, CF, RAM, ROM, display>>
    /\ UNCHANGED asmVars
    /\ UNCHANGED textVars

Next ==
    \/ Parse
    \/ EncodeLabels
    \/ WriteCode
    \/ Boot
    \/ Execute
    \/ \E val \in InputVals : Input(val)

Spec == Init /\ [][Next]_vars

(***************************************************************************)
(* The text utilities in use: a PositionedString, a Code or a LinedCode is *)
(* built from a source string and then called, as the tests under          *)
(* src/tests call it.                                                      *)
(***************************************************************************)
RECURSIVE StringsUpTo(_, _)
StringsUpTo(alphabet, n) ==
    IF n = 0 THEN {<<>>}
    ELSE LET shorter == StringsUpTo(alphabet, n - 1)
         IN  shorter \cup {Append(q, c) : q \in {r \in shorter : Len(r) = n - 1},
                                          c \in alphabet}

Sources == StringsUpTo({"a", "b", "\n"}, MaxSource)

RawStrings == {<<"x">>, <<"x", "y">>}

MatchStrings == {<<"a">>, <<"b">>, <<"a", "b">>, <<"b", "b">>}

MatchLists == {<<Str(m)>> : m \in MatchStrings}
              \cup {<<Str(<<"b">>), Str(<<"a", "b">>)>>, <<Str(<<"a", "a">>), Str(<<"a">>)>>}

CharRanges == {<<"a", "a">>, <<"b", "c">>, <<"a", "z">>, <<NUL, "z">>}

TextInit ==
    /\ job = Image(<<>>)
    /\ phase = "text"
    /\ err = ""
    /\ instructions = <<>>
    /\ labels = EmptyMap
    /\ constants = EmptyMap
    /\ warnings = [labels |-> {}, constants |-> {}]
    /\ machinecode = <<>>
    /\ files = <<>>
    /\ PC = 0 /\ L = 0 /\ H = 0 /\ X = 0 /\ Y = 0 /\ IN_ = 0
    /\ CF = FALSE /\ IF_ = FALSE
    /\ RAM = EmptyMap
    /\ ROM = <<>>
    /\ display = NewDisplay
    /\ inputs = 0
    /\ class \in {"PositionedString", "Code", "LinedCode"}
    /\ \E source \in Sources :
           \E self \in {IF class = "LinedCode" THEN LinedCode(create_string(source, 0))
                         ELSE Code(create_string(source, 0))} :
               /\ text = self.text
               /\ remaining_text = self.remaining_text
               /\ offset = self.offset
    /\ call = NoCall
    /\ ret = None
    /\ NoLex

Cursor == [text |-> text, remaining_text |-> remaining_text, offset |-> offset]

\* The object after a call, and what the call returned.
Called(r, c) ==
    /\ text' = r.self.text
    /\ remaining_text' = r.self.remaining_text
    /\ offset' = r.self.offset
    /\ ret' = r.ret
    /\ call' = [c EXCEPT !.before = Cursor]
    /\ UNCHANGED <<job, phase, err, class>>
    /\ UNCHANGED asmVars
    /\ UNCHANGED emuVars
    /\ UNCHANGED lexVars

\* t[a:b]
GetItem(a, b) ==
    /\ class = "PositionedString"
    /\ a <= b /\ b <= len(text)
    /\ Called(Returns(Cursor, Value(getitem(text, a, b))),
              [NoCall EXCEPT !.op = "getitem", !.index = a, !.stop = b])

\* t = t.insert(index, string)
Insert(index, string) ==
    /\ class = "PositionedString"
    /\ -(len(text) + 1) <= index /\ index <= len(text)
    /\ len(text) + Len(string) <= MaxText
    /\ Called(Returns([Cursor EXCEPT !.text = insert(text, index, Str(string))], None),
              [NoCall EXCEPT !.op = "insert", !.index = index, !.strings = <<Str(string)>>])

\* t = t + string
Add(string) ==
    /\ class = "PositionedString"
    /\ len(text) + Len(string) <= MaxText
    /\ Called(Returns([Cursor EXCEPT !.text = add(text, Str(string))], None),
              [NoCall EXCEPT !.op = "add", !.strings = <<Str(string)>>])

Advance(amount) ==
    /\ class \in {"Code", "LinedCode"}
    /\ \E r \in {advance(Cursor, amount)} :
           Called(r, [NoCall EXCEPT !.op = "advance", !.index = amount])

AdvancePast(string) ==
    /\ class \in {"Code", "LinedCode"}
    /\ \E r \in {advance_past(Cursor, Str(string))} :
           Called(r, [NoCall EXCEPT !.op = "advance_past", !.strings = <<Str(string)>>])

Match(matches) ==
    /\ class \in {"Code", "LinedCode"}
    /\ \E r \in {match(Cursor, matches)} :
           Called(r, [NoCall EXCEPT !.op = "match", !.strings = matches])

MatchRange(lower, upper) ==
    /\ class \in {"Code", "LinedCode"}
    /\ offset < MaxOffset
    /\ \E r \in {match_range(Cursor, lower, upper)} :
           Called(r, [NoCall EXCEPT !.op = "match_range", !.lower = lower, !.upper = upper])

AdvanceLine ==
    /\ class = "LinedCode"
    /\ \E r \in {advance_line(Cursor)} :
           Called(r, [NoCall EXCEPT !.op = "advance_line"])

SkipLine ==
    /\ class = "LinedCode"
    /\ \E r \in {skip_line(Cursor)} :
           Called(r, [NoCall EXCEPT !.op = "skip_line"])

TextNext ==
    \/ \E a \in 0..MaxText : \E b \in 0..MaxText : GetItem(a, b)
    \/ \E index \in -(MaxText + 1)..MaxText : \E string \in RawStrings : Insert(index, string)
    \/ \E string \in RawStrings : Add(string)
    \/ \E amount \in 0..MaxAmount : Advance(amount)
    \/ \E string \in MatchStrings : AdvancePast(string)
    \/ \E matches \in MatchLists : Match(matches)
    \/ \E range \in CharRanges : MatchRange(range[1], range[2])
    \/ AdvanceLine
    \/ SkipLine

TextSpec == TextInit /\ [][TextNext]_vars

(***************************************************************************)
(* The tokenizer on a source and on the same source with more whitespace   *)
(* or a comment between two of its lexemes.                                *)
(***************************************************************************)
Lexemes == {<<"n", "o", "p">>, <<"a">>, <<":">>, <<"L">>, <<"-">>, <<"5">>, <<"\n">>}

Fillers == {<<" ">>, <<"/", "*", "c", "*", "/">>, <<" ", "/", "*", "c", "*", "/", " ">>}

\* Two lexemes that would read as one when written side by side are
\* written with a space between them.
Joint(l, r) ==
    IF (isalnum(l[Len(l)]) \/ l[Len(l)] = "_") /\ (isalnum(r[1]) \/ r[1] = "_")
    THEN <<" ">> ELSE <<>>

\* The lexemes written out, with the filler f added between the lexemes
\* number gap and gap + 1 (nowhere when gap = 0).
RECURSIVE Written(_, _, _)
Written(lexemes, gap, f) ==
    IF Len(lexemes) = 1 THEN lexemes[1]
    ELSE lexemes[1] \o Joint(lexemes[1], lexemes[2])
             \o (IF gap = 1 THEN f ELSE <<>>)
             \o Written(Tail(lexemes), gap - 1, f)

LexSources ==
    {[plain |-> Written(ls, 0, <<>>), padded |-> Written(ls, gap, f)] :
        <<ls, gap, f>> \in {x \in (SeqsUpTo(Lexemes, MaxLexemes) \ {<<>>})
                                     \X (1..MaxLexemes) \X Fillers :
                                x[2] < Len(x[1])}}

LexInit ==
    /\ job = Image(<<>>)
    /\ phase = "lex"
    /\ err = ""
    /\ instructions = <<>>
    /\ labels = EmptyMap
    /\ constants = EmptyMap
    /\ warnings = [labels |-> {}, constants |-> {}]
    /\ machinecode = <<>>
    /\ files = <<>>
    /\ PC = 0 /\ L = 0 /\ H = 0 /\ X = 0 /\ Y = 0 /\ IN_ = 0
    /\ CF = FALSE /\ IF_ = FALSE
    /\ RAM = EmptyMap
    /\ ROM = <<>>
    /\ display = NewDisplay
    /\ inputs = 0
    /\ class = ""
    /\ text = empty_string
    /\ remaining_text = empty_string
    /\ offset = 0
    /\ call = NoCall
    /\ ret = None
    /\ sources \in LexSources
    /\ tokenized = <<>>

\* Tokenizer(text) on one of the two texts.
Tokenize(which) ==
    /\ phase = "lex"
    /\ which \notin DOMAIN tokenized
    /\ \E t \in {Tokenizer(sources[which])} :
           tokenized' = (which :> t) @@ tokenized
    /\ UNCHANGED <<job, phase, err, sources>>
    /\ UNCHANGED <<class, text, remaining_text, offset, call, ret>>
    /\ UNCHANGED asmVars
    /\ UNCHANGED emuVars

TokenizeSource == Tokenize("plain")

TokenizePadded == Tokenize("padded")

LexNext == TokenizeSource \/ TokenizePadded

LexSpec == LexInit /\ [][LexNext]_vars

\* The emulator's driver loop builds the Computer and then calls execute()
\* on every iteration.
(***************************************************************************)
(* The computer on one instruction: a running machine whose next byte is  *)
(* an arithmetic / logic instruction (01xmoooo) or a jump (0001cccc), with *)
(* operands in X, L and the memory cell at H:L, and the flags as earlier   *)
(* instructions and inputs left them.                                      *)
(***************************************************************************)
OperandVals == {0, 1, 127, 128, 254, 255}

StepBytes == (64..127) \cup (16..31)

StepInit ==
    /\ job \in {Image(<<b, 0>>) : b \in StepBytes}
    /\ phase = "running"
    /\ err = ""
    /\ instructions = <<>>
    /\ labels = EmptyMap
    /\ constants = EmptyMap
    /\ warnings = [labels |-> {}, constants |-> {}]
    /\ machinecode = <<>>
    /\ files = <<>>
    /\ ROM = job.image
    /\ PC = 0 /\ H = 0 /\ Y = 0 /\ IN_ = 0
    /\ X \in OperandVals
    /\ L \in OperandVals
    /\ \E val \in OperandVals : RAM = (concat(H, L) :> val)
    /\ CF \in BOOLEAN
    /\ IF_ \in BOOLEAN
    /\ display = NewDisplay
    /\ inputs = 0
    /\ NoText

StepSpec == StepInit /\ [][Execute]_vars

LiveSpec == LiveInit /\ [][Next]_vars /\ WF_vars(Boot) /\ WF_vars(Execute)

TypeOK ==
    /\ phase \in {"tokens", "parsed", "resolved", "written", "failed", "image", "running"}
    /\ PC \in 0..32767 /\ L \in 0..255 /\ H \in 0..127 /\ X \in 0..255 /\ Y \in 0..255

(***************************************************************************)
(* Properties.                                                             *)
(***************************************************************************)
Assembled == job.kind = "asm" /\ phase \in {"written", "running"}

Parsed == job.kind = "asm" /\ phase \in {"parsed", "resolved", "written", "running"}

Resolved == job.kind = "asm" /\ phase \in {"resolved", "written", "running"}

\* The positions (1-based) of the instructions that come from source line k,
\* and the address (0-based) of the first of them.
LineInstrs(k) == {i \in 1..Len(instructions) : instructions[i].line = k}

LineAddress(k) == (CHOOSE i \in LineInstrs(k) : \A j \in LineInstrs(k) : i <= j) - 1

IsLoadJob == job.kind = "asm" /\ job.tokens \in LoadPrograms

IsLdaJob == job.kind = "asm" /\ job.tokens \in LdaPrograms

\* C1: every source that assembles without error yields a byte stream that
\* begins with 0x01 0x01 and ends with 0x00.
C1_NopNopHlt ==
    Assembled =>
        /\ Len(machinecode) >= 3
        /\ machinecode[1] = 1
        /\ machinecode[2] = 1
        /\ machinecode[Len(machinecode)] = 0

C1_Witness ==
    /\ Assembled
    /\ Len(machinecode) > 128
    /\ \E i \in 1..Len(machinecode) : machinecode[i] \notin {0, 1}

\* C2: `ldb n` (here the third line of `ldb a / mov L X / ldb n`) assembles
\* to 1 byte when (n & 0xFF) < 128 and to 2 bytes otherwise, and executing it
\* leaves L = n & 0xFF and X as it was before the sequence.
C2_LdbLoad ==
    IsLoadJob =>
        LET a     == job.tokens[1][2].n
            n     == job.tokens[3][2].n
            size  == IF BitAnd(n, 255) < 128 THEN 1 ELSE 2
            start == LineAddress(3)
        IN  /\ phase # "failed"
            /\ Parsed => Cardinality(LineInstrs(3)) = size
            /\ Assembled => Len(machinecode) = Len(instructions)
            /\ (phase = "running" /\ PC = start) => X = BitAnd(a, 255)
            /\ (phase = "running" /\ PC = start + size) =>
                   (X = BitAnd(a, 255) /\ L = BitAnd(n, 255))

C2_Witness ==
    /\ IsLoadJob
    /\ phase = "running"
    /\ job.tokens[3][2].n = -128
    /\ PC = LineAddress(3) + 2
    /\ X = 255
    /\ L = 128

\* C3: `lda e` is emitted as 3 or 4 bytes, all of which the encoder can
\* produce, and executing them from the initial emulator state leaves
\* H:L = e & 0x7FFF.
C3_Lda ==
    IsLdaJob =>
        LET e == job.tokens[1][2].n
        IN  /\ phase # "failed"
            /\ Assembled => Len(machinecode) - 3 \in {3, 4}
            /\ (phase = "running" /\ terminated) => concat(H, L) = BitAnd(e, 32767)

\* C4 as stated: `mov r r` encodes as nop (0x01), without an error, for
\* every register r.
C4_MovSameIsNop ==
    \A r \in Regs :
        job = Source(<<RegLine("mov", <<r, r>>)>>) =>
            /\ phase # "failed"
            /\ Assembled => machinecode = <<1, 1, 1, 0>>

\* The byte of `mov r r` for the registers for which one is produced.
MovSameByte(r) == CASE r \in {"M", "Y"} -> 1 [] r = "X" -> 32 [] r = "L" -> 37

\* C4 amended: `mov r r` encodes as nop (0x01) for r in {M, Y}; as the
\* ordinary mov byte for X (0x20) and L (0x25); and is rejected with an
\* ArgumentError for I and H.
C4_MovSame ==
    \A r \in Regs :
        job = Source(<<RegLine("mov", <<r, r>>)>>) =>
            /\ phase = "failed" => (r \in {"I", "H"} /\ err = "Argument")
            /\ Assembled => (r \in {"X", "L", "M", "Y"}
                             /\ machinecode = <<1, 1, MovSameByte(r), 0>>)

C4_Witness ==
    /\ job = Source(<<RegLine("mov", <<"M", "M">>)>>)
    /\ Assembled
    /\ machinecode = <<1, 1, 1, 0>>

\* The source line that declares a label, and the address of the first
\* instruction that comes from that line or a later one.
LabelLine(name) ==
    CHOOSE k \in 1..Len(job.tokens) :
        /\ Len(job.tokens[k]) >= 2
        /\ job.tokens[k][1] = Id(name)
        /\ job.tokens[k][2] = Sym(":")

DeclaredLabels ==
    {job.tokens[k][1].s : k \in {j \in 1..Len(job.tokens) :
                                    /\ Len(job.tokens[j]) >= 2
                                    /\ job.tokens[j][1].type = "identifier"
                                    /\ job.tokens[j][2] = Sym(":")}}

FollowingAddress(name) ==
    LET later == {i \in 1..Len(instructions) : instructions[i].line >= LabelLine(name)}
    IN  (CHOOSE i \in later : \A j \in later : i <= j) - 1

\* C5: after parsing and label resolution every label's address is the
\* index, in the emitted byte stream, of the instruction that follows the
\* label in the source.
C5_LabelAddresses ==
    /\ Resolved =>
           /\ DOMAIN labels = DeclaredLabels
           /\ \A name \in DOMAIN labels : labels[name] = FollowingAddress(name)
    /\ Assembled => Len(machinecode) = Len(instructions)

\* A label beyond address 128 that was moved by the growth of a load of a
\* label earlier in the list.
C5_Witness ==
    /\ phase = "resolved"
    /\ \E name \in DOMAIN labels :
           /\ labels[name] > 128
           /\ \E i \in 1..labels[name] :
                  /\ instructions[i].op = "not"
                  /\ instructions[i].line > 0
                  /\ job.tokens[instructions[i].line][Len(job.tokens[instructions[i].line])].type
                         = "identifier"

LoopJmpLoop == Source(<<Labelled("loop", RefLine("jmp", "loop"))>>)

LoopLdaJmp == Source(<<Labelled("loop", RefLine("lda", "loop")), Line("jmp")>>)

\* C6 as stated: `loop: jmp loop` assembles with loop at address 2 and the
\* emulator never reaches the terminated state.
C6_JmpLoopAssembles ==
    job = LoopJmpLoop =>
        /\ phase # "failed"
        /\ Resolved => labels["loop"] = 2
        /\ phase = "running" => ~terminated

\* C6 amended: `loop: jmp loop` is rejected with a SyntaxError (jmp takes no
\* operand); the two-line source `loop: lda loop` / `jmp` assembles with
\* loop at address 2, and the emulator run from PC = 0 visits PC = 2
\* infinitely often and never reaches the terminated state.
C6_Loop ==
    /\ [](job = LoopJmpLoop =>
              /\ phase \in {"tokens", "failed"}
              /\ phase = "failed" => err = "Syntax")
    /\ [](job = LoopLdaJmp =>
              /\ phase # "failed"
              /\ Resolved => labels = [name \in {"loop"} |-> 2]
              /\ phase = "running" => ~terminated)
    /\ []<>((job = LoopLdaJmp /\ phase = "running") => PC = 2)

\* The loop has been taken: PC is back at 2 with the target loaded.
C6_Witness ==
    /\ job = LoopLdaJmp
    /\ phase = "running"
    /\ PC = 2
    /\ concat(H, L) = 2

ImageE8 == Image(<<1, 1, 197, 232, 0>>)

Image21 == Image(<<1, 1, 133, 33, 0>>)

\* C7 as stated: [0x01, 0x01, 0xC5, 0xE8, 0x00] terminates with X = 5,
\* L = 5 and PC = 4.
C7_E8MovesLToX ==
    (job = ImageE8 /\ phase = "running" /\ terminated) => (X = 5 /\ L = 5 /\ PC = 4)

\* C7 amended: stepping [0x01, 0x01, 0xC5, 0xE8, 0x00] from PC = 0
\* eventually reaches the terminated state with X = 0, L = 0x68 and PC = 4
\* (0xC5 is `ldb 0x45` and 0xE8 is `ldb 0x68`); the bytes of nop, nop,
\* `ldb 5`, `mov L X`, hlt are [0x01, 0x01, 0x85, 0x21, 0x00], and stepping
\* those eventually reaches the terminated state with X = 5, L = 5, PC = 4.
C7_Terminates ==
    /\ []((job = ImageE8 /\ phase = "running" /\ terminated) =>
              (X = 0 /\ L = 104 /\ PC = 4))
    /\ []((job = Image21 /\ phase = "running" /\ terminated) =>
              (X = 5 /\ L = 5 /\ PC = 4))
    /\ <>(job \in {ImageE8, Image21} => (phase = "running" /\ terminated))

C7_Witness ==
    /\ job = ImageE8
    /\ phase = "running"
    /\ terminated
    /\ L = 104

\* C8 as stated: the source `hlt` assembles to exactly [0x01, 0x01, 0x00].
C8_HltThreeBytes ==
    (job = Source(<<Line("hlt")>>) /\ Assembled) => machinecode = <<1, 1, 0>>

\* C8 amended: the source `hlt` assembles to the four bytes
\* [0x01, 0x01, 0x00, 0x00]: the user's hlt is followed by the hlt that the
\* parser appends to every program.
C8_HltFourBytes ==
    job = Source(<<Line("hlt")>>) =>
        /\ phase # "failed"
        /\ Assembled => machinecode = <<1, 1, 0, 0>>

C8_Witness ==
    /\ job = Source(<<Line("hlt")>>)
    /\ phase = "written"
    /\ Len(machinecode) = 4

\* C9 as stated: `ldb 0x42` gives [0x01, 0x01, 0xC2, 0x00] and `ldb 0x80`
\* gives [0x01, 0x01, 0xFF, 0x03, 0x00].
C9_NotIs03 ==
    /\ (job = Source(<<LoadLine("ldb", 66)>>) /\ Assembled) => machinecode = <<1, 1, 194, 0>>
    /\ (job = Source(<<LoadLine("ldb", 128)>>) /\ Assembled) =>
           machinecode = <<1, 1, 255, 3, 0>>

\* C9 amended: `ldb 0x42` gives [0x01, 0x01, 0xC2, 0x00] and `ldb 0x80` gives
\* [0x01, 0x01, 0xFF, 0x43, 0x00]; a wide load emits 0x80 | (~n & 0x7F)
\* followed by the encoding of `not L L`, which is the byte 0x43.
C9_NotIs43 ==
    /\ (job = Source(<<LoadLine("ldb", 66)>>) /\ Assembled) => machinecode = <<1, 1, 194, 0>>
    /\ (job = Source(<<LoadLine("ldb", 128)>>) /\ Assembled) =>
           machinecode = <<1, 1, 255, 67, 0>>
    /\ (IsLoadJob /\ Assembled /\ BitAnd(job.tokens[3][2].n, 255) >= 128) =>
           LET n == job.tokens[3][2].n
               start == LineAddress(3)
           IN  /\ machinecode[start + 1] = BitOr(128, BitAnd(BitNot(n), 127))
               /\ machinecode[start + 2] = 67

C9_Witness ==
    /\ job = Source(<<LoadLine("ldb", 128)>>)
    /\ Assembled
    /\ machinecode[4] = 67

\* C10: for every instruction the parser and the label resolver hand to the
\* encoder, the encoder returns one byte in 0..255 or rejects the registers
\* with an ArgumentError; the EncodingError is never raised.
C10_NoEncodingError ==
    /\ err # "Encoding"
    /\ phase = "resolved" =>
           \A i \in 1..Len(instructions) :
               LET r == instruction_value(instructions[i])
               IN  /\ r.err \in {"", "Argument"}
                   /\ r.byte \in 0..255

\* The registers written on the only line of a one-line program.
LineRegs == [i \in 1..(Len(job.tokens[1]) - 1) |-> job.tokens[1][i + 1].s]

IsArithJob == job.kind = "asm" /\ job.tokens \in ArithPrograms

\* The register combinations C11 names as accepted.
ArithAccepted(regs) ==
    /\ regs[1] \in {"X", "L"}
    /\ \A i \in 2..Len(regs) : regs[i] \notin {"I", "Y", "H"}
    /\ Len(regs) = 3 => ((regs[2] = "X") # (regs[3] = "X"))

\* C11: the encoder accepts an arithmetic / logic instruction only when its
\* destination is X or L, no argument is I, Y or H and (two-argument
\* operations) exactly one argument is X; every other combination raises
\* ArgumentError.  The accepted byte is 01xm oooo with x = 1 iff the
\* destination is X and m = 1 iff some argument is M; `add X L X` is 0x69
\* and `add H L X` is an ArgumentError.
C11_Arithmetic ==
    /\ IsArithJob =>
           /\ phase = "failed" => (err = "Argument" /\ ~ArithAccepted(LineRegs))
           /\ Assembled =>
                  /\ ArithAccepted(LineRegs)
                  /\ Len(machinecode) = 4
                  /\ machinecode[3] \div 64 = 1
                  /\ Bit(machinecode[3], 5) = (IF LineRegs[1] = "X" THEN 1 ELSE 0)
                  /\ Bit(machinecode[3], 4) =
                         (IF \E i \in 2..Len(LineRegs) : LineRegs[i] = "M" THEN 1 ELSE 0)
    /\ (job = Source(<<RegLine("add", <<"X", "L", "X">>)>>) /\ Assembled) =>
           machinecode = <<1, 1, 105, 0>>
    /\ job = Source(<<RegLine("add", <<"H", "L", "X">>)>>) =>
           /\ ~Assembled
           /\ phase = "failed" => err = "Argument"

\* `add X L X` has been encoded.
C11_Witness ==
    /\ job = Source(<<RegLine("add", <<"X", "L", "X">>)>>)
    /\ phase = "written"
    /\ machinecode[3] = 105

IsOpJob == job.kind = "asm" /\ job.tokens \in OpPrograms

\* C12: `opd r` and `opi r` raise ArgumentError when r is Y and when r is H;
\* for every other register the byte is 0x08 | d << 2 | reg(r), d = 1 for
\* opd and 0 for opi.
C12_OpRejectsYH ==
    IsOpJob =>
        LET r == LineRegs[1]
            d == IF job.tokens[1][1].s = "opd" THEN 1 ELSE 0
        IN  /\ phase = "failed" => (err = "Argument" /\ r \in {"Y", "H"})
            /\ Assembled =>
                   /\ r \notin {"Y", "H"}
                   /\ machinecode = <<1, 1, 8 + 4 * d + registers[r], 0>>

IsDefJob == job.kind = "asm" /\ job.tokens \in DefPrograms

\* The name a line of a DefPrograms source defines: the identifier before
\* the colon, or the identifier after `define`.
DefinedName(k) ==
    IF job.tokens[k][1].type = "identifier" THEN job.tokens[k][1].s ELSE job.tokens[k][2].s

DefinedTwice ==
    \E i \in 1..Len(job.tokens) : \E j \in 1..Len(job.tokens) :
        i < j /\ DefinedName(i) = DefinedName(j)

\* C13: the label map and the constant map never share a key; a source
\* that defines a name (as a label or with `define`) that is already a
\* label or a constant fails with a NameError, in every order and mix of
\* the two kinds of definition, and a source that defines no name twice
\* does not fail.
C13_DisjointNames ==
    /\ DOMAIN labels \cap DOMAIN constants = {}
    /\ IsDefJob =>
           /\ DefinedTwice => (phase \in {"tokens", "failed"}
                               /\ (phase = "failed" => err = "Name"))
           /\ ~DefinedTwice => phase # "failed"
           /\ Parsed => /\ \A k \in 1..Len(job.tokens) :
                               DefinedName(k) \in DOMAIN labels \cup DOMAIN constants
                         /\ Cardinality(DOMAIN labels \cup DOMAIN constants)
                                = Len(job.tokens)

\* A label followed by a define of the same name has been rejected.
C13_Witness ==
    /\ job = Source(<<Labelled("a", Line("nop")), DefineLine("b", 5), DefineLine("a", 5)>>)
    /\ phase = "failed"
    /\ err = "Name"

\* The bytes that the loads of source line k put into L, in order: the
\* immediate of each load, complemented when `not L L` follows it.
LoadedBytes(k) ==
    LET at == {i \in LineInstrs(k) : instructions[i].kind = "imm"}
        byte(i) == IF i < Len(instructions) /\ instructions[i + 1].op = "not"
                      /\ instructions[i + 1].line = k
                   THEN 255 - instructions[i].imm ELSE instructions[i].imm
        RECURSIVE Ordered(_)
        Ordered(S) == IF S = {} THEN <<>>
                      ELSE LET m == CHOOSE i \in S : \A j \in S : i <= j
                           IN  <<byte(m)>> \o Ordered(S \ {m})
    IN  Ordered(at)

\* The bytes a load keyword takes from a 16 bit value: lda the upper then
\* the lower byte, ldu the upper byte, ldb the lower byte.
ExpectedBytes(op, v) ==
    IF op = "lda" THEN <<(v \div 256) % 256, v % 256>>
    ELSE IF op = "ldu" THEN <<(v \div 256) % 256>>
    ELSE <<v % 256>>

\* The job's first line is a load of label `far`, which a later line
\* declares.
IsForwardJob ==
    /\ job.kind = "asm"
    /\ job.tokens # <<>>
    /\ Len(job.tokens[1]) = 2
    /\ job.tokens[1][1].s \in {"ldb", "ldu", "lda"}
    /\ job.tokens[1][2] = Id("far")
    /\ \E k \in 2..Len(job.tokens) :
           Len(job.tokens[k]) >= 2 /\ job.tokens[k][1] = Id("far")
                                   /\ job.tokens[k][2] = Sym(":")

IsUseFirstJob == job.kind = "asm" /\ job.tokens \in UseFirstPrograms

\* C14: a constant used in a load or expression before the line that
\* defines it makes assembly fail with an error, whereas a label used in a
\* load before the line that declares it assembles successfully and
\* resolves to the label's address.
C14_ForwardReferences ==
    /\ IsUseFirstJob => phase \in {"tokens", "failed"}
    /\ IsForwardJob =>
           /\ phase # "failed"
           /\ Resolved =>
                  LoadedBytes(1) = ExpectedBytes(job.tokens[1][1].s, labels["far"])

IsExprJob == job.kind = "asm" /\ job.tokens \in ExprPrograms

InLiteralRange(n) == -32768 <= n /\ n < 65536

\* The expression of an ExprPrograms source and its mathematical value.
JobExpression ==
    LET line == job.tokens[1]
        from == IF line[1].s = "define" THEN 3 ELSE 2
    IN  SubSeq(line, from, Len(line))

ExpressionValue(e) ==
    IF Len(e) = 1 THEN e[1].n
    ELSE IF Len(e) = 2 THEN (IF e[1].s = "-" THEN 0 - e[2].n ELSE BitNot(e[2].n))
    ELSE ApplyBinary(e[2].s, e[1].n, e[3].n)

\* C15: every integer literal and every computed constant-expression value
\* outside [-32768, 65536) is rejected with a ValueError; no load or define
\* receives a value outside that range.
C15_ValuesInRange ==
    /\ Parsed => \A name \in DOMAIN constants :
                     constants[name].isint => InLiteralRange(constants[name].n)
    /\ IsExprJob =>
           /\ ~InLiteralRange(ExpressionValue(JobExpression)) =>
                  /\ phase \in {"tokens", "failed"}
                  /\ phase = "failed" => err = "Value"
           /\ (\A i \in 1..Len(JobExpression) :
                   JobExpression[i].type = "integer" => InLiteralRange(JobExpression[i].n))
               /\ InLiteralRange(ExpressionValue(JobExpression)) => phase # "failed"

\* C17: for every PositionedString t and every slice s = t[a:b] with
\* 0 <= a <= b <= len(t), len(s) = b - a and the i-th character of s is
\* character a + i of t and carries its (line, column) coordinate.
C17_SliceKeepsCoordinates ==
    call.op = "getitem" =>
        LET s == ret.value
            t == call.before.text
            a == call.index
            b == call.stop
        IN  /\ ret.kind = "value"
            /\ len(s) = b - a
            /\ Len(s.coordinates) = b - a
            /\ \A i \in 0..(b - a - 1) :
                   /\ s.text[i + 1] = t.text[a + i + 1]
                   /\ s.coordinates[i + 1] = t.coordinates[a + i + 1]

\* A slice that starts after the first character and spans a line break.
C17_Witness ==
    /\ call.op = "getitem"
    /\ call.index >= 1
    /\ len(ret.value) >= 2
    /\ ret.value.coordinates[1].line # ret.value.coordinates[len(ret.value)].line

\* The last call inserted or appended a raw string: where it went (the
\* number of characters before it) and how long it is.
RawInserted == call.op \in {"insert", "add"}

InsertionPoint ==
    IF call.op = "add" THEN len(call.before.text)
    ELSE IF call.index < 0 THEN call.index + len(call.before.text) + 1
    ELSE call.index

InsertedPositions == (InsertionPoint + 1)..(InsertionPoint + Len(call.strings[1].text))

\* The string is the old string with the raw characters put in at the
\* insertion point; the old characters keep their coordinates.
InsertedInPlace ==
    LET old == call.before.text
        n   == Len(call.strings[1].text)
    IN  /\ len(text) = len(old) + n
        /\ Len(text.coordinates) = len(text)
        /\ \A k \in InsertedPositions : text.text[k] = call.strings[1].text[k - InsertionPoint]
        /\ \A k \in 1..InsertionPoint :
               text.text[k] = old.text[k] /\ text.coordinates[k] = old.coordinates[k]
        /\ \A k \in (InsertionPoint + 1)..len(old) :
               /\ text.text[k + n] = old.text[k]
               /\ text.coordinates[k + n] = old.coordinates[k]

\* C18 as stated: every character of a raw string inserted into or appended
\* to a PositionedString receives exactly the coordinate of the character
\* immediately before the insertion point, and no coordinate that was not
\* already present in the string is created.
C18_InheritsCoordinate ==
    (RawInserted /\ InsertionPoint > 0) =>
        /\ InsertedInPlace
        /\ \A k \in InsertedPositions :
               text.coordinates[k] = call.before.text.coordinates[InsertionPoint]
        /\ Range(text.coordinates) \subseteq Range(call.before.text.coordinates)

\* C18 amended: every inserted character receives the line of the character
\* immediately before the insertion point and that character's column plus
\* one, or (0, 0) when no character precedes the insertion point; the other
\* characters keep their coordinates.
C18_NextColumn ==
    RawInserted =>
        /\ InsertedInPlace
        /\ \A k \in InsertedPositions :
               text.coordinates[k] =
                   IF InsertionPoint = 0 THEN Coordinate(0, 0)
                   ELSE Coordinate(call.before.text.coordinates[InsertionPoint].line,
                                   call.before.text.coordinates[InsertionPoint].column + 1)

\* Two raw characters inserted inside a string, with a coordinate that no
\* character of the string carried before.
C18_Witness ==
    /\ call.op = "insert"
    /\ InsertionPoint > 0
    /\ InsertionPoint < len(call.before.text)
    /\ Len(call.strings[1].text) = 2
    /\ text.coordinates[InsertionPoint + 1] \notin Range(call.before.text.coordinates)

\* The string m stands in the text t at index i (0-based).
StandsAt(t, m, i) ==
    /\ i + Len(m) <= Len(t)
    /\ \A k \in 1..Len(m) : t[i + k] = m[k]

\* What the last call was looking for is there: one of the strings of
\* match at the offset, a character in the range of match_range at the
\* offset, or the string of advance_past at or after the offset.
FindsMatch ==
    LET t   == call.before.text.text
        off == call.before.offset
    IN  CASE call.op = "match" ->
                 \E k \in 1..Len(call.strings) : StandsAt(t, call.strings[k].text, off)
          [] call.op = "match_range" ->
                 /\ off < Len(t)
                 /\ ord(call.lower) <= ord(t[off + 1])
                 /\ ord(t[off + 1]) <= ord(call.upper)
          [] call.op = "advance_past" ->
                 \E i \in off..(Len(t) - 1) : StandsAt(t, call.strings[1].text, i)
          [] OTHER -> FALSE

\* C19: on a Code cursor, a call to match, match_range or advance_past that
\* finds no match returns None and leaves the offset unchanged; a successful
\* call advances the offset by exactly the length of the text it returns;
\* advance(n) advances by exactly the length of the returned substring; so
\* the offset never exceeds len(text).
C19_CursorStaysInRange ==
    class = "Code" =>
        /\ offset <= len(text)
        /\ call.op \in {"match", "match_range", "advance_past"} =>
               IF FindsMatch
               THEN /\ ret.kind = "value"
                    /\ offset = call.before.offset + len(ret.value)
               ELSE /\ ret.kind = "None"
                    /\ offset = call.before.offset
        /\ call.op = "advance" =>
               /\ ret.kind = "value"
               /\ offset = call.before.offset + len(ret.value)

\* The lines of the source the object was built from, as create_string
\* numbers them: the text of the PositionedString the cursor was built on,
\* grouped by line.
LineNumbers(t) == {t.coordinates[i].line : i \in 1..len(t)}

\* The end of the current line: the first index of text whose character
\* is on another line than the character at index 0.
EndOfLine(t) ==
    IF len(t) = 0 THEN 0
    ELSE LET other == {i \in 1..len(t) : t.coordinates[i].line # t.coordinates[1].line}
         IN  IF other = {} THEN len(t)
             ELSE (CHOOSE i \in other : \A j \in other : i <= j) - 1

\* C20: on a LinedCode cursor, advance, match, match_range and advance_past
\* never consume characters beyond the end of the current line; advance_line
\* moves to the next line (returning True, offset reset to 0) if and only if
\* the offset has reached the end of the current line and a further line
\* exists, and otherwise returns False leaving text and remaining_text
\* unchanged; the lines are visited one at a time (text holds characters of
\* one source line only, and none of them is also in remaining_text), and
\* has_more() is False after the skip_line call that returns False.
C20_LinesRespected ==
    class = "LinedCode" =>
        /\ \A i \in 1..len(text) : text.coordinates[i].line = text.coordinates[1].line
        /\ Range(text.coordinates) \cap Range(remaining_text.coordinates) = {}
        /\ call.op \in {"advance", "match", "match_range", "advance_past"} =>
               /\ offset <= EndOfLine(text)
               /\ ret.kind = "value" =>
                      \A i \in 1..len(ret.value) :
                          ret.value.coordinates[i].line = ret.value.coordinates[1].line
        /\ call.op = "advance_line" =>
               IF call.before.offset >= EndOfLine(call.before.text)
                  /\ len(call.before.remaining_text) > 0
               THEN /\ ret = Bool(TRUE)
                    /\ offset = 0
                    /\ text.coordinates[1] = call.before.remaining_text.coordinates[1]
               ELSE /\ ret = Bool(FALSE)
                    /\ text = call.before.text
                    /\ remaining_text = call.before.remaining_text
        /\ (call.op = "skip_line" /\ ret = Bool(FALSE)) => ~lined_has_more(Cursor)

(***************************************************************************)
(* C16: whitespace or a comment added between two adjacent tokens of a     *)
(* source (between a '-' and the integer after it included) leaves the     *)
(* kinds and values of the tokens the tokenizer produces as they were: the *)
(* tokenizer makes the same of the source and of the padded source.        *)
(***************************************************************************)
BothTokenized == DOMAIN tokenized = {"plain", "padded"}

C16_PaddingKeepsTokens ==
    BothTokenized => tokenized["plain"] = tokenized["padded"]

\* The same for sources without a minus sign.
NoMinus == \A i \in 1..Len(sources.plain) : sources.plain[i] # "-"

PaddingKeepsTokensWithoutMinus ==
    (BothTokenized /\ NoMinus) => tokenized["plain"] = tokenized["padded"]

(***************************************************************************)
(* C21: one reverse pass of the label resolver suffices: after it, every   *)
(* load that referenced a label loads that label's final address, also     *)
(* when the resolution of an earlier placeholder grows the list by one and *)
(* shifts labels that later, already resolved placeholders refer to.       *)
(***************************************************************************)
\* The source lines that end in a load of a declared label.
LabelLoads ==
    {k \in 1..Len(job.tokens) :
        LET t == job.tokens[k]
        IN  /\ Len(t) >= 2
            /\ t[Len(t) - 1] \in {Kw("ldb"), Kw("ldu"), Kw("lda")}
            /\ t[Len(t)].type = "identifier"
            /\ t[Len(t)].s \in DOMAIN labels}

LoadsFinalAddress(k) ==
    LET t == job.tokens[k]
    IN  LoadedBytes(k) = ExpectedBytes(t[Len(t) - 1].s, labels[t[Len(t)].s])

C21_OnePassSuffices ==
    Resolved => \A k \in LabelLoads : LoadsFinalAddress(k)

(***************************************************************************)
(* C22: encoder and emulator agree on mov.  For every pair (src, dst) of   *)
(* registers with src # H, dst # I and src # dst, the step that executes   *)
(* the byte the encoder produces for `mov src dst` writes the value src    *)
(* had before the step into dst (a RAM write at H:L for M, a RAM read at   *)
(* H:L for M as source, 7 bits for H), changes no other register, flag or  *)
(* RAM cell, and advances PC by one.                                       *)
(***************************************************************************)
EncodablePairs == {p \in MovPairs : p[1] # "H" /\ p[2] # "I"}

\* The value of a register before the step.
RegisterValue(r) ==
    CASE r = "X" -> X [] r = "L" -> L [] r = "Y" -> Y [] r = "I" -> IN_
      [] r = "M" -> RAMAt(RAM, H * 256 + L)

\* A step of execute (no input arrives) on the byte of `mov src dst`.
ExecutesMov(src, dst) ==
    /\ phase = "running" /\ phase' = "running"
    /\ inputs' = inputs
    /\ PC < Len(ROM)
    /\ ROM[PC + 1] = instruction_value(Instr("mov", <<src, dst>>)).byte

MovEffect(src, dst) ==
    LET v == RegisterValue(src)
    IN  /\ X' = IF dst = "X" THEN v ELSE X
        /\ L' = IF dst = "L" THEN v ELSE L
        /\ Y' = IF dst = "Y" THEN v ELSE Y
        /\ H' = IF dst = "H" THEN v % 128 ELSE H
        /\ \A a \in DOMAIN RAM \cup DOMAIN RAM' \cup {H * 256 + L} :
               RAMAt(RAM', a) = IF dst = "M" /\ a = H * 256 + L THEN v ELSE RAMAt(RAM, a)
        /\ PC' = (PC + 1) % 32768
        /\ UNCHANGED <<IN_, CF, IF_, ROM, display>>

C22_MovAgrees ==
    [][\A p \in EncodablePairs : ExecutesMov(p[1], p[2]) => MovEffect(p[1], p[2])]_vars

\* `mov M H` has run on H:L = 0x01B3 with 196 in that cell: H is 196
\* without its eighth bit and the next instruction is up.
C22_Witness ==
    /\ job = Source(Append(MovSetup, RegLine("mov", <<"M", "H">>)))
    /\ phase = "running"
    /\ PC = Len(ROM) - 1
    /\ ROM[PC] = 43
    /\ H = 68 /\ L = 179 /\ X = 162 /\ Y = 145
    /\ RAMAt(RAM, 435) = 196

(***************************************************************************)
(* C23: for every ALU opcode 0..15 and all operands, the ALU step leaves   *)
(* CF unchanged when the operation is logical and, when it is arithmetic,  *)
(* sets CF to the ninth bit of the natural result of the operation; the    *)
(* result cut to 8 bits goes to X if x = 1 and to L otherwise.             *)
(***************************************************************************)
\* The operation of each opcode on A = X and B = L or M, as an integer
\* that is not cut to 8 bits.
NaturalResult(opcode, a, b) ==
    CASE opcode = 0  -> BitNot(a)
      [] opcode = 1  -> BitOr(BitNot(a), b)
      [] opcode = 2  -> BitNot(BitAnd(a, b))
      [] opcode = 3  -> BitNot(b)
      [] opcode = 4  -> a - 1
      [] opcode = 5  -> b - a
      [] opcode = 6  -> BitNot(BitAnd(a, b))
      [] opcode = 7  -> b - 1
      [] opcode = 8  -> 0 - a
      [] opcode = 9  -> a + b
      [] opcode = 10 -> BitAnd(a, b)
      [] opcode = 11 -> b + 1
      [] opcode = 12 -> a + 1
      [] opcode = 13 -> a - b
      [] opcode = 14 -> BitOr(a, b)
      [] opcode = 15 -> 0 - b

ArithmeticOpcodes == {4, 5, 7, 8, 9, 11, 12, 13, 15}

IncDecOpcodes == {4, 7, 11, 12}

\* Bit 8 of an integer in two's complement.
NinthBit(r) == r % 512 >= 256

\* A step of execute on an arithmetic / logic byte.
AluStep ==
    /\ phase = "running" /\ phase' = "running"
    /\ inputs' = inputs
    /\ PC' # PC
    /\ msb(ROMAt(ROM, PC)) = 6

AluResult ==
    LET byte == ROMAt(ROM, PC)
    IN  NaturalResult(byte % 16, X, IF Bit(byte, 4) = 1 THEN RAMAt(RAM, H * 256 + L) ELSE L)

ResultStored ==
    IF Bit(ROMAt(ROM, PC), 5) = 1
    THEN X' = AluResult % 256 /\ L' = L
    ELSE L' = AluResult % 256 /\ X' = X

C23_NinthBitCarry ==
    [][AluStep =>
          /\ ResultStored
          /\ CF' = IF ROMAt(ROM, PC) % 16 \in ArithmeticOpcodes
                   THEN NinthBit(AluResult) ELSE CF]_vars

\* C23 amended: logical operations leave CF unchanged; add, sub and neg
\* set CF to the ninth bit of the natural result; inc and dec set CF to
\* the complement of that bit (the carry out of the adder, which adds
\* 0xFF for both); the result cut to 8 bits goes to X if x = 1 and to L
\* otherwise.
C23_AdderCarry ==
    [][AluStep =>
          /\ ResultStored
          /\ CF' = IF ROMAt(ROM, PC) % 16 \in IncDecOpcodes
                   THEN ~NinthBit(AluResult)
                   ELSE IF ROMAt(ROM, PC) % 16 \in ArithmeticOpcodes
                   THEN NinthBit(AluResult) ELSE CF]_vars

\* `inc X` (0x6C) has run on X = 1: X is 2, and the carry flag is set
\* although 1 + 1 has no ninth bit.
C23_Witness ==
    /\ job = Image(<<108, 0>>)
    /\ phase = "running"
    /\ PC = 1
    /\ X = 2
    /\ CF

(***************************************************************************)
(* C24: for a jump byte in signed / X-compare mode (bit 3 set) and every   *)
(* X, the emulator sets PC to H:L if and only if (bit0 and X > 0) or (bit1 *)
(* and X = 0) or (bit2 and X < 0), X read as a signed 8 bit value;         *)
(* otherwise PC advances by one.  So jmp (0x1F) jumps for every X, and     *)
(* jgt, jge and jne jump when X = 127.                                     *)
(***************************************************************************)
Signed8(v) == IF v >= 128 THEN v - 256 ELSE v

\* A step of execute on a jump byte in X-compare mode.
SignedJumpStep ==
    /\ phase = "running" /\ phase' = "running"
    /\ inputs' = inputs
    /\ msb(ROMAt(ROM, PC)) = 4
    /\ Bit(ROMAt(ROM, PC), 3) = 1

SignedJumpDue ==
    LET byte == ROMAt(ROM, PC)
    IN  \/ Bit(byte, 0) = 1 /\ Signed8(X) > 0
        \/ Bit(byte, 1) = 1 /\ Signed8(X) = 0
        \/ Bit(byte, 2) = 1 /\ Signed8(X) < 0

C24_SignedJumps ==
    [][SignedJumpStep =>
          PC' = IF SignedJumpDue THEN H * 256 + L ELSE (PC + 1) % 32768]_vars

(***************************************************************************)
(* C25: when ROM[PC] is 0x00, execute() leaves PC, every register, both    *)
(* flags, RAM and the display unchanged; so once terminated() is true it   *)
(* stays true after any number of further execute() and input() calls.     *)
(***************************************************************************)
C25_HaltIsStable ==
    [][(phase = "running" /\ terminated) =>
          /\ terminated'
          /\ UNCHANGED <<PC, L, H, X, Y, CF, RAM, ROM, display>>
          /\ inputs' = inputs => UNCHANGED <<IN_, IF_>>]_vars

\* `hlt` alone has been assembled and run to its halt (the third byte,
\* after the two start-up nops), and an input has arrived.
C25_Witness ==
    /\ job = Source(<<Line("hlt")>>)
    /\ phase = "running"
    /\ terminated
    /\ PC = 2
    /\ inputs = 1 /\ IF_

(***************************************************************************)
(* C26: the value of a unary expression is the result of applying its      *)
(* prefix operators to the primary from the innermost (rightmost) outward, *)
(* '-' as arithmetic negation and '!' as bitwise complement: `--x` and     *)
(* `!!x` equal x, `-!x` equals -(~x) and `!-x` equals ~(-x), for every     *)
(* prefix string over '-' and '!'.                                         *)
(***************************************************************************)
IsPrefixJob == job.kind = "asm" /\ job.tokens \in PrefixPrograms

\* The operators pre applied to x, the last of them first.
RECURSIVE PrefixValue(_, _)
PrefixValue(pre, x) ==
    IF pre = <<>> THEN x
    ELSE IF Head(pre).s = "-" THEN 0 - PrefixValue(Tail(pre), x)
    ELSE BitNot(PrefixValue(Tail(pre), x))

C26_UnaryComposes ==
    IsPrefixJob =>
        LET line == job.tokens[1]
        IN  /\ phase # "failed"
            /\ Parsed => constants["J"]
                            = IntVal(PrefixValue(SubSeq(line, 3, Len(line) - 1),
                                                 line[Len(line)].n))

(***************************************************************************)
(* C27: after any sequence of display data writes and display instruction  *)
(* writes the cursor address is in 0..79 and increment is -1 or +1; each   *)
(* data write stores the character at the cursor and moves the cursor to   *)
(* (address + increment) mod 80, from 79 round to 0 and from 0 to 79.      *)
(***************************************************************************)
CursorInRange ==
    /\ display.address \in 0..79
    /\ display.increment \in {-1, 1}

\* A step of execute on an out instruction that writes data (bit 2 set).
DataWrite ==
    /\ phase = "running" /\ phase' = "running"
    /\ inputs' = inputs
    /\ msb(ROMAt(ROM, PC)) = 3
    /\ Bit(ROMAt(ROM, PC), 2) = 1

\* The value the out instruction takes from its source register.
Written_(byte) ==
    CASE byte % 4 = 0 -> X
      [] byte % 4 = 1 -> L
      [] byte % 4 = 2 -> IN_
      [] byte % 4 = 3 -> RAMAt(RAM, H * 256 + L)

MovedCursor ==
    LET to == display.address + display.increment
    IN  IF to = 80 THEN 0 ELSE IF to = -1 THEN 79 ELSE to

C27_CursorWraps ==
    /\ []CursorInRange
    /\ [][DataWrite =>
             /\ display'.text[display.address] = Written_(ROMAt(ROM, PC))
             /\ \A a \in DOMAIN display.text \ {display.address} :
                    display'.text[a] = display.text[a]
             /\ display'.address = MovedCursor
             /\ display'.increment = display.increment]_vars

\* The loop that writes upwards has written cell 79 and the cursor is
\* back at 0.
C27_Witness ==
    /\ job = Source(WriteUp)
    /\ phase = "running"
    /\ 79 \in DOMAIN display.text
    /\ display.address = 0
    /\ display.increment = 1

(***************************************************************************)
(* A PositionedString under its own operations alone: s = s[a:b],          *)
(* s = s + string, s = s.insert(index, string), del s[key], del s[a:b],    *)
(* for the class of text_utils/positioned_string.py and the one of         *)
(* cstring.py.  The variable text holds s.                                 *)
(***************************************************************************)
Edited(s, r) ==
    /\ text' = s
    /\ ret' = r
    /\ UNCHANGED <<job, phase, err, class, remaining_text, offset, call>>
    /\ UNCHANGED asmVars
    /\ UNCHANGED emuVars
    /\ UNCHANGED lexVars

\* Characters are added while the columns stay within MaxColumn: cutting
\* and adding again moves the last column up without end.
WithinColumns ==
    \A i \in DOMAIN text.coordinates : text.coordinates[i].column <= MaxColumn

StringInit ==
    /\ job = Image(<<>>)
    /\ phase = "text"
    /\ err = ""
    /\ instructions = <<>>
    /\ labels = EmptyMap
    /\ constants = EmptyMap
    /\ warnings = [labels |-> {}, constants |-> {}]
    /\ machinecode = <<>>
    /\ files = <<>>
    /\ PC = 0 /\ L = 0 /\ H = 0 /\ X = 0 /\ Y = 0 /\ IN_ = 0
    /\ CF = FALSE /\ IF_ = FALSE
    /\ RAM = EmptyMap
    /\ ROM = <<>>
    /\ display = NewDisplay
    /\ inputs = 0
    /\ class \in {"PositionedString", "cstring.PositionedString"}
    /\ \E source \in Sources :
           text = IF class = "PositionedString" THEN create_string(source, 0)
                  ELSE cstring_create_string(source)
    /\ remaining_text = empty_string
    /\ offset = 0
    /\ call = NoCall
    /\ ret = None
    /\ NoLex

\* s = s[a:b]
Slice(a, b) ==
    /\ class = "PositionedString"
    /\ a <= b /\ b <= len(text)
    /\ Edited(getitem(text, a, b), None)

\* s = s + string
Concat(string) ==
    /\ class = "PositionedString"
    /\ WithinColumns
    /\ len(text) + Len(string) <= MaxText
    /\ Edited(add(text, Str(string)), None)

\* s = s.insert(index, string)
InsertAt(index, string) ==
    /\ class = "PositionedString"
    /\ WithinColumns
    /\ index <= len(text)
    /\ len(text) + Len(string) <= MaxText
    /\ Edited(insert(text, index, Str(string)), None)

\* del s[key]
DelItem(key) ==
    /\ class = "PositionedString"
    /\ IF key < len(text) THEN Edited(delitem_at(text, key), None)
       ELSE Edited(text, Raised("IndexError"))

\* del s[a:b]
DelSlice(a, b) ==
    /\ class = "PositionedString"
    /\ a <= b
    /\ Edited(delitem_slice(text, a, b), None)

\* The same on a PositionedString of cstring.py:
\* s = s[a:b]
CstringGetItem(a, b) ==
    /\ class = "cstring.PositionedString"
    /\ a <= b /\ b <= len(text)
    /\ Edited(getitem(text, a, b), None)

\* s = s + string
CstringAdd(string) ==
    /\ class = "cstring.PositionedString"
    /\ len(text) + Len(string) <= MaxText
    /\ IF len(text) > 0 /\ text.coordinates = <<>>
       THEN Edited(text, Raised("IndexError"))
       ELSE Edited(cstring_add(text, Str(string)), None)

\* s = s.insert(index, string)
CstringInsert(index, string) ==
    /\ class = "cstring.PositionedString"
    /\ index <= len(text)
    /\ len(text) + Len(string) <= MaxText
    /\ IF index > Len(text.coordinates)
          \/ (index < len(text) /\ index >= Len(text.coordinates))
       THEN Edited(text, Raised("IndexError"))
       ELSE Edited(cstring_insert(text, index, Str(string)), None)

\* del s[key]
CstringDelItem(key) ==
    /\ class = "cstring.PositionedString"
    /\ IF key < Len(text.coordinates) THEN Edited(cstring_delitem_at(text, key), None)
       ELSE Edited(text, Raised("IndexError"))

\* del s[a:b]
CstringDelSlice(a, b) ==
    /\ class = "cstring.PositionedString"
    /\ a <= b
    /\ Edited(delitem(text, a, b), None)

StringNext ==
    \/ \E a \in 0..MaxText : \E b \in 0..MaxText : Slice(a, b)
    \/ \E string \in RawStrings : Concat(string)
    \/ \E index \in 0..MaxText : \E string \in RawStrings : InsertAt(index, string)
    \/ \E key \in 0..MaxText : DelItem(key)
    \/ \E a \in 0..MaxText : \E b \in 0..MaxText : DelSlice(a, b)
    \/ \E a \in 0..MaxText : \E b \in 0..MaxText : CstringGetItem(a, b)
    \/ \E string \in RawStrings : CstringAdd(string)
    \/ \E index \in 0..MaxText : \E string \in RawStrings : CstringInsert(index, string)
    \/ \E key \in 0..MaxText : CstringDelItem(key)
    \/ \E a \in 0..MaxText : \E b \in 0..MaxText : CstringDelSlice(a, b)

StringSpec == StringInit /\ [][StringNext]_vars


(***************************************************************************)
(* C28: after any sequence of PositionedString operations (construction    *)
(* from raw text, slicing, concatenation, insertion, deletion of a single  *)
(* index or of a slice) the number of characters equals the number of      *)
(* stored coordinates.                                                     *)
(***************************************************************************)
AsManyCoordinates(string) == Len(string.text) = Len(string.coordinates)

C28_AsManyCoordinates ==
    class \in {"PositionedString", "cstring.PositionedString"} => AsManyCoordinates(text)

\* The same for the PositionedString of text_utils alone.
PositionedAsManyCoordinates ==
    class = "PositionedString" => AsManyCoordinates(text)

(***************************************************************************)
(* C29: IN and IF are written only by input(v), which sets IN = v and      *)
(* IF = true and changes nothing else; no step of execute, a taken jis     *)
(* included, changes IF or IN, so a raised IF stays raised for the rest of *)
(* the run and every later jis jumps to H:L.                               *)
(***************************************************************************)
\* A step of the running machine: execute, or input when inputs counts up.
MachineStep == phase = "running" /\ phase' = "running"

InputStep == MachineStep /\ inputs' # inputs

ExecuteStep == MachineStep /\ inputs' = inputs

C29_FlagOnlyRaised ==
    [][/\ ExecuteStep => IN_' = IN_ /\ IF_' = IF_
       /\ InputStep => /\ IN_' \in InputVals
                       /\ IF_'
                       /\ UNCHANGED <<PC, L, H, X, Y, CF, RAM, ROM, display>>
       /\ MachineStep /\ IF_ => IF_'
       /\ ExecuteStep /\ IF_ /\ ROMAt(ROM, PC) = fixed["jis"] => PC' = concat(H, L)]_vars

\* `ldb 5 / jis` after an input: the jis has jumped to H:L = 5.
C29_Witness ==
    /\ job = Source(<<LoadLine("ldb", 5), Line("jis")>>)
    /\ phase = "running"
    /\ IF_ /\ IN_ = 65
    /\ L = 5 /\ PC = 5

(***************************************************************************)
(* C30: assembly is all-or-nothing for the output files: when parsing,     *)
(* label resolution or the encoding of an instruction raises, none of the  *)
(* three files (.bin, _hex.txt, _bin.txt) exists, and the files exist only *)
(* once every instruction has been encoded.                                *)
(***************************************************************************)
\* Every instruction has been encoded, and machinecode holds the bytes.
AllEncoded ==
    /\ Len(machinecode) = Len(instructions)
    /\ \A i \in 1..Len(instructions) :
           /\ instruction_value(instructions[i]).err = ""
           /\ instruction_value(instructions[i]).byte = machinecode[i]

C30_AllOrNothing ==
    /\ phase \in {"tokens", "parsed", "resolved", "failed"} => files = <<>>
    /\ err # "" => files = <<>>
    /\ files # <<>> => files = FileNames /\ err = "" /\ AllEncoded

\* `ldu 32768` fails in the encoder after an earlier instruction was encoded,
\* and no file exists.
C30_Witness ==
    /\ phase = "failed"
    /\ err = "Encoding"
    /\ Len(instructions) > 1
    /\ instruction_value(instructions[1]).err = ""
    /\ files = <<>>

====
